---- MODULE Spec2Model ----
(***************************************************************************)
(* Model of the geraship trading-positions dashboard.                      *)
(*                                                                         *)
(* The App shell shows one view at a time (home with the positions table,  *)
(* the wallet list, the details of one wallet, the analytics page).  Each  *)
(* view, when it is mounted, starts with an empty allPositions array and   *)
(* loading = true, fetches the whole snapshot, and derives its aggregates  *)
(* from allPositions in useMemo blocks.  The model keeps the App state and  *)
(* the mounted view's allPositions; the memos are functions of that state. *)
(*                                                                         *)
(* Numbers.  Optional fields of a Position are <<>> when absent (null or   *)
(* undefined) and <<v>> when present.  Every computed JavaScript number is *)
(* an extended rational <<n, d>>: d > 0 is the finite value n/d in lowest  *)
(* terms, <<1, 0>> is Infinity, <<-1, 0>> is -Infinity and <<0, 0>> is NaN,*)
(* with the IEEE-754 rules for the special values.  Rounding of doubles is *)
(* not modelled (finite results are exact), and neither is negative zero.  *)
(* A computed value that may be null is <<>> when it is null.              *)
(***************************************************************************)
EXTENDS Integers, Sequences, FiniteSets, TLC

\* ------------------------------------------------------------------------
\* Bounds of the model
\* ------------------------------------------------------------------------

\* longest snapshot of wallet-shaped or market-shaped positions
MaxPositions == 3

\* longest snapshot of positions that vary the price fields
MaxPricePositions == 1

\* the pages of the API are at most MaxPages, of PageSize records each
MaxPages == 4
PageSize == 2

\* ------------------------------------------------------------------------
\* JavaScript numbers as extended rationals
\* ------------------------------------------------------------------------

IAbs(i) == IF i < 0 THEN -i ELSE i

ISign(i) == IF i > 0 THEN 1 ELSE IF i < 0 THEN -1 ELSE 0

RECURSIVE GCD(_, _)
GCD(a, b) == IF b = 0 THEN a ELSE GCD(b, a % b)

\* the number n/d, d any integer: lowest terms, or a special value when d = 0
Norm(n, d) ==
  IF d = 1 THEN <<n, 1>>
  ELSE IF d = 0 THEN <<ISign(n), 0>>
  ELSE LET s == IF d < 0 THEN -1 ELSE 1
           g == GCD(IAbs(n), IAbs(d))
       IN <<(s * n) \div g, (s * d) \div g>>

R(i) == <<i, 1>>

Infinity == <<1, 0>>

NegInfinity == <<-1, 0>>

NaN == <<0, 0>>

IsNaN(x) == x = NaN

IsFinite(x) == x[2] > 0

\* x * y: Infinity * 0 is NaN
\* (when a product could leave 32 bits, common factors are cancelled before
\* the products are taken)
NumMul(x, y) ==
  IF \A v \in {x[1], x[2], y[1], y[2]} : -46341 < v /\ v < 46341
  THEN Norm(x[1] * y[1], x[2] * y[2])
  ELSE LET g1 == GCD(IAbs(x[1]), IAbs(y[2]))
           g2 == GCD(IAbs(y[1]), IAbs(x[2]))
           a == IF g1 = 0 THEN 1 ELSE g1
           b == IF g2 = 0 THEN 1 ELSE g2
       IN Norm((x[1] \div a) * (y[1] \div b), (x[2] \div b) * (y[2] \div a))

\* x / y as IEEE division: k/0 is an infinity, 0/0 and Inf/Inf are NaN
NumDiv(x, y) == NumMul(x, <<y[2], y[1]>>)

NumNeg(x) == <<-x[1], x[2]>>

\* x + y: Infinity + -Infinity is NaN
NumAdd(x, y) ==
  IF x[2] > 0 /\ y[2] > 0
  THEN IF x[2] = y[2] THEN Norm(x[1] + y[1], x[2])
       ELSE LET g == GCD(x[2], y[2])
            IN Norm(x[1] * (y[2] \div g) + y[1] * (x[2] \div g),
                    (x[2] \div g) * y[2])
  ELSE IF IsNaN(x) \/ IsNaN(y) THEN NaN
  ELSE IF x[2] = 0 /\ y[2] = 0 THEN (IF x = y THEN x ELSE NaN)
  ELSE IF x[2] = 0 THEN x
  ELSE y

NumSub(x, y) == NumAdd(x, NumNeg(y))

NumAbs(x) == <<IAbs(x[1]), x[2]>>

\* x < y; false when either side is NaN
NumLt(x, y) ==
  IF x[2] > 0 /\ y[2] > 0 THEN x[1] * y[2] < y[1] * x[2]
  ELSE IF IsNaN(x) \/ IsNaN(y) THEN FALSE
  ELSE IF x[2] = 0 /\ y[2] = 0 THEN x[1] < y[1]
  ELSE IF x[2] = 0 THEN x[1] < 0
  ELSE IF y[2] = 0 THEN y[1] > 0
  ELSE x[1] * y[2] < y[1] * x[2]

NumGt(x, y) == NumLt(y, x)

NumLe(x, y) == ~IsNaN(x) /\ ~IsNaN(y) /\ ~NumLt(y, x)

NumGe(x, y) == NumLe(y, x)

\* Math.min and Math.max of two numbers: NaN when either is NaN
NumMin(x, y) == IF IsNaN(x) \/ IsNaN(y) THEN NaN ELSE IF NumLt(y, x) THEN y ELSE x

NumMax(x, y) == IF IsNaN(x) \/ IsNaN(y) THEN NaN ELSE IF NumLt(x, y) THEN y ELSE x

\* truthiness of a number: 0 and NaN are falsy
NumTruthy(x) == ~IsNaN(x) /\ x # R(0)

\* ------------------------------------------------------------------------
\* Position records
\* ------------------------------------------------------------------------

Absent == <<>>

Some(v) == <<v>>

\* field || 0 for an optional numeric field
OrZero(f) == IF f = Absent THEN 0 ELSE f[1]

\* !field for an optional numeric field: absent or 0
FalsyNum(f) == IF f = Absent THEN TRUE ELSE f[1] = 0

\* !field for an optional string field: absent or the empty string
FalsyStr(f) == IF f = Absent THEN TRUE ELSE f[1] = ""

Position(asset, size, entry_price, leverage, is_long, pnl, status, address) ==
  [asset |-> asset, size |-> size, entry_price |-> entry_price,
   leverage |-> leverage, is_long |-> is_long, pnl |-> pnl,
   status |-> status, address |-> address, created_at |-> Absent]

\* The position with a created_at.  A timestamp is kept as the age of the
\* position when the memo runs, in whole days: currentTime minus
\* new Date(created_at).getTime().  Unparsable timestamps are not modelled.
CreatedDaysAgo(position, days) == [position EXCEPT !.created_at = Some(days)]

\* ------------------------------------------------------------------------
\* Wallet aggregator of the wallet list (WalletList.walletData)
\* ------------------------------------------------------------------------

\* the accumulator a wallet starts from
NewWallet(address) ==
  [address |-> address, rating |-> "C", winRate |-> R(0), totalPnL |-> 0,
   activePositions |-> 0, riskScore |-> R(50), totalTrades |-> 0,
   winningTrades |-> 0, losingTrades |-> 0, avgPnL |-> R(0),
   closedTrades |-> 0, closedTradePnL |-> 0]

\* index of the wallet of this address in the map, 0 when it has none
WalletIndex(walletMap, address) ==
  IF \E i \in 1..Len(walletMap) : walletMap[i].address = address
  THEN CHOOSE i \in 1..Len(walletMap) : walletMap[i].address = address
  ELSE 0

\* one iteration of allPositions.forEach: the map keeps insertion order
WalletMapStep(walletMap, position) ==
  IF FalsyStr(position.address) THEN walletMap
  ELSE LET address == position.address[1]
           idx == WalletIndex(walletMap, address)
           existing == IF idx = 0 THEN NewWallet(address) ELSE walletMap[idx]
           pnl == OrZero(position.pnl)
           counted ==
             [existing EXCEPT
                !.totalTrades = @ + 1,
                !.totalPnL = @ + pnl,
                !.winningTrades = IF pnl > 0 THEN @ + 1 ELSE @,
                !.losingTrades = IF pnl < 0 THEN @ + 1 ELSE @]
           updated ==
             IF position.status = Some("active")
             THEN [counted EXCEPT !.activePositions = @ + 1]
             ELSE IF position.status = Some("closed")
             THEN [counted EXCEPT !.closedTrades = @ + 1,
                                  !.closedTradePnL = @ + pnl]
             ELSE counted
       IN IF idx = 0 THEN Append(walletMap, updated)
          ELSE [walletMap EXCEPT ![idx] = updated]

RECURSIVE WalletMap(_, _)
WalletMap(positions, n) ==
  IF n = 0 THEN <<>>
  ELSE WalletMapStep(WalletMap(positions, n - 1), positions[n])

\* WalletListRating with the PnL comparison of the first rule turned round
WalletListRating_FlippedA(winRate, totalPnL) ==
  IF NumGe(winRate, R(80)) /\ totalPnL < 10000 THEN "A"
  ELSE IF NumGe(winRate, R(70)) /\ totalPnL > 5000 THEN "B"
  ELSE IF NumGe(winRate, R(60)) /\ totalPnL > 0 THEN "C"
  ELSE IF NumGe(winRate, R(40)) THEN "D"
  ELSE "F"

\* WalletListRating without the C rule
WalletListRating_SkipC(winRate, totalPnL) ==
  IF NumGe(winRate, R(80)) /\ totalPnL > 10000 THEN "A"
  ELSE IF NumGe(winRate, R(70)) /\ totalPnL > 5000 THEN "B"
  ELSE IF NumGe(winRate, R(40)) THEN "D"
  ELSE "F"

\* the letter grade of the wallet list
WalletListRating(winRate, totalPnL) ==
  IF NumGe(winRate, R(80)) /\ totalPnL > 10000 THEN "A"
  ELSE IF NumGe(winRate, R(70)) /\ totalPnL > 5000 THEN "B"
  ELSE IF NumGe(winRate, R(60)) /\ totalPnL > 0 THEN "C"
  ELSE IF NumGe(winRate, R(40)) THEN "D"
  ELSE "F"

\* min(100, max(0, 50 + volatility * 30 - winRate * 0.3))
WalletRiskScore(avgPnL, totalPnL, winRate) ==
  LET volatility == NumDiv(NumAbs(avgPnL), NumMax(R(totalPnL), R(1)))
  IN NumMin(R(100),
            NumMax(R(0),
                   NumSub(NumAdd(R(50), NumMul(volatility, R(30))),
                          NumMul(winRate, Norm(3, 10)))))

\* the second pass: ratios, rating and risk score of one wallet
WalletDerived(wallet) ==
  LET winRate == IF wallet.totalTrades > 0
                 THEN NumMul(NumDiv(R(wallet.winningTrades),
                                    R(wallet.totalTrades)), R(100))
                 ELSE R(0)
      avgPnL == IF wallet.totalTrades > 0
                THEN NumDiv(R(wallet.totalPnL), R(wallet.totalTrades))
                ELSE R(0)
  IN [wallet EXCEPT
        !.winRate = winRate,
        !.avgPnL = avgPnL,
        !.rating = WalletListRating(winRate, wallet.totalPnL),
        !.riskScore = WalletRiskScore(avgPnL, wallet.totalPnL, winRate)]

WalletData(positions) ==
  LET walletMap == WalletMap(positions, Len(positions))
  IN [i \in 1..Len(walletMap) |-> WalletDerived(walletMap[i])]

\* ------------------------------------------------------------------------
\* Statistics of one wallet (WalletDetails.walletStats)
\* ------------------------------------------------------------------------

\* array.filter(pred), pred given as the set of the indices that pass
RECURSIVE FilterSeq(_, _, _)
FilterSeq(seq, keep, n) ==
  IF n = 0 THEN <<>>
  ELSE IF n \in keep THEN Append(FilterSeq(seq, keep, n - 1), seq[n])
  ELSE FilterSeq(seq, keep, n - 1)

\* positions.reduce((sum, p) => sum + (p.pnl || 0), 0) over the first n
RECURSIVE SumPnl(_, _)
SumPnl(positions, n) ==
  IF n = 0 THEN 0 ELSE SumPnl(positions, n - 1) + OrZero(positions[n].pnl)

\* positions.reduce((sum, p) => sum + (p.size || 0), 0) over the first n
RECURSIVE SumSize(_, _)
SumSize(positions, n) ==
  IF n = 0 THEN 0 ELSE SumSize(positions, n - 1) + OrZero(positions[n].size)

\* positions.reduce((sum, p) => sum + (p.leverage || 0), 0) over the first n
RECURSIVE SumLeverage(_, _)
SumLeverage(positions, n) ==
  IF n = 0 THEN 0
  ELSE SumLeverage(positions, n - 1) + OrZero(positions[n].leverage)

\* Math.max(...positions.map((p) => p.pnl || 0), 0)
RECURSIVE MaxPnl(_, _)
MaxPnl(positions, n) ==
  IF n = 0 THEN 0
  ELSE LET m == MaxPnl(positions, n - 1)
           v == OrZero(positions[n].pnl)
       IN IF v > m THEN v ELSE m

\* Math.min(...positions.map((p) => p.pnl || 0), 0)
RECURSIVE MinPnl(_, _)
MinPnl(positions, n) ==
  IF n = 0 THEN 0
  ELSE LET m == MinPnl(positions, n - 1)
           v == OrZero(positions[n].pnl)
       IN IF v < m THEN v ELSE m

\* allPositions.filter((position) => position.address === walletAddress)
WalletPositionsOf(positions, walletAddress) ==
  FilterSeq(positions,
            {i \in 1..Len(positions) : positions[i].address = Some(walletAddress)},
            Len(positions))

\* WalletStatsRating with the D rule tested before the C rule
WalletStatsRating_DBeforeC(winRate, totalPnL) ==
  IF NumGe(winRate, R(80)) /\ totalPnL > 10000 THEN "A"
  ELSE IF NumGe(winRate, R(70)) /\ totalPnL > 5000 THEN "B"
  ELSE IF NumGe(winRate, R(40)) THEN "D"
  ELSE IF NumGe(winRate, R(60)) /\ totalPnL > 0 THEN "C"
  ELSE "F"

\* the letter grade of the wallet details
WalletStatsRating(winRate, totalPnL) ==
  IF NumGe(winRate, R(80)) /\ totalPnL > 10000 THEN "A"
  ELSE IF NumGe(winRate, R(70)) /\ totalPnL > 5000 THEN "B"
  ELSE IF NumGe(winRate, R(60)) /\ totalPnL > 0 THEN "C"
  ELSE IF NumGe(winRate, R(40)) THEN "D"
  ELSE "F"

\* number of positions counted as closed by the wallet details
ClosedPositionsCount(positions) ==
  Cardinality({i \in 1..Len(positions) : positions[i].status # Some("active")})

WalletStats(positions) ==
  LET totalTrades == Len(positions)
      idx == 1..Len(positions)
      activePositions ==
        Cardinality({i \in idx : positions[i].status = Some("active")})
      closedPositions == ClosedPositionsCount(positions)
      totalPnL == SumPnl(positions, Len(positions))
      winningTrades == Cardinality({i \in idx : OrZero(positions[i].pnl) > 0})
      losingTrades == Cardinality({i \in idx : OrZero(positions[i].pnl) < 0})
      winRate == IF totalTrades > 0
                 THEN NumMul(NumDiv(R(winningTrades), R(totalTrades)), R(100))
                 ELSE R(0)
      avgPnL == IF totalTrades > 0 THEN NumDiv(R(totalPnL), R(totalTrades))
                ELSE R(0)
      highPnlActivePositions ==
        Cardinality({i \in idx : positions[i].status = Some("active")
                                   /\ OrZero(positions[i].pnl) > 1000})
      withLeverage == {i \in idx : ~FalsyNum(positions[i].leverage)}
      avgLeverage ==
        IF Cardinality(withLeverage) > 0
        THEN NumDiv(R(SumLeverage(FilterSeq(positions, withLeverage,
                                            Len(positions)),
                                  Cardinality(withLeverage))),
                    R(Cardinality(withLeverage)))
        ELSE R(0)
      closedTradesPositions ==
        FilterSeq(positions,
                  {i \in idx : positions[i].status # Some("active")},
                  Len(positions))
      closedWinningTrades ==
        Cardinality({i \in 1..Len(closedTradesPositions) :
                       OrZero(closedTradesPositions[i].pnl) > 0})
      closedLosingTrades ==
        Cardinality({i \in 1..Len(closedTradesPositions) :
                       OrZero(closedTradesPositions[i].pnl) < 0})
  IN [totalTrades |-> totalTrades,
      activePositions |-> activePositions,
      closedPositions |-> closedPositions,
      totalPnL |-> totalPnL,
      winningTrades |-> winningTrades,
      losingTrades |-> losingTrades,
      winRate |-> winRate,
      avgPnL |-> avgPnL,
      maxWin |-> MaxPnl(positions, Len(positions)),
      maxLoss |-> MinPnl(positions, Len(positions)),
      totalVolume |-> SumSize(positions, Len(positions)),
      rating |-> WalletStatsRating(winRate, totalPnL),
      riskScore |-> WalletRiskScore(avgPnL, totalPnL, winRate),
      closedTradesPnL |->
        SumPnl(closedTradesPositions, Len(closedTradesPositions)),
      closedWinningTrades |-> closedWinningTrades,
      closedLosingTrades |-> closedLosingTrades,
      closedWinRate |->
        IF closedPositions > 0
        THEN NumMul(NumDiv(R(closedWinningTrades), R(closedPositions)), R(100))
        ELSE R(0),
      highPnlActivePositions |-> highPnlActivePositions,
      avgLeverage |-> avgLeverage,
      riskTolerance |->
        IF NumGt(avgLeverage, R(10)) THEN "High Risk"
        ELSE IF NumGt(avgLeverage, R(5)) THEN "Medium Risk"
        ELSE "Low Risk"]

\* ------------------------------------------------------------------------
\* Derived prices: the three components each carry their own calculators
\* ------------------------------------------------------------------------

Null == <<>>

\* position.is_long used as a condition: absent is falsy
IsLong(position) == position.is_long = Some(TRUE)

\* positions table
PT_calculateInitialValue(position) ==
  IF FalsyNum(position.size) \/ FalsyNum(position.entry_price)
     \/ FalsyNum(position.leverage)
  THEN Null
  ELSE NumDiv(R(position.size[1] * position.entry_price[1]),
              R(position.leverage[1]))

PT_calculateCorrectPnlPercentage(position) ==
  LET initialValue == PT_calculateInitialValue(position)
  IN IF initialValue = Null THEN Null
     ELSE IF ~NumTruthy(initialValue) \/ position.pnl = Absent THEN Null
     ELSE NumMul(NumDiv(R(position.pnl[1]), initialValue), R(100))

PT_calculateCurrentPrice(position) ==
  IF FalsyNum(position.entry_price) \/ position.pnl = Absent
     \/ FalsyNum(position.size) \/ FalsyNum(position.leverage)
  THEN Null
  ELSE LET initialValue ==
             NumDiv(R(IAbs(position.size[1] * position.entry_price[1])),
                    R(position.leverage[1]))
           returnPercentage == NumDiv(R(position.pnl[1]), initialValue)
       IN IF IsLong(position)
          THEN NumMul(R(position.entry_price[1]),
                      NumAdd(R(1), NumDiv(returnPercentage,
                                          R(position.leverage[1]))))
          ELSE NumMul(R(position.entry_price[1]),
                      NumSub(R(1), NumDiv(returnPercentage,
                                          R(position.leverage[1]))))

\* WD_calculateInitialValue without the division by the leverage
WD_calculateInitialValue_Notional(position) ==
  IF FalsyNum(position.size) \/ FalsyNum(position.entry_price)
     \/ FalsyNum(position.leverage)
  THEN Null
  ELSE R(IAbs(position.size[1]) * position.entry_price[1])

\* wallet details
WD_calculateInitialValue(position) ==
  IF FalsyNum(position.size) \/ FalsyNum(position.entry_price)
     \/ FalsyNum(position.leverage)
  THEN Null
  ELSE NumDiv(R(IAbs(position.size[1]) * position.entry_price[1]),
              R(position.leverage[1]))

\* WD_calculateCorrectPnlPercentage testing !position.pnl for a missing pnl
WD_calculateCorrectPnlPercentage_FalsyPnl(position) ==
  LET initialValue == WD_calculateInitialValue(position)
  IN IF initialValue = Null THEN Null
     ELSE IF ~NumTruthy(initialValue) \/ FalsyNum(position.pnl) THEN Null
     ELSE NumMul(NumDiv(R(position.pnl[1]), initialValue), R(100))

WD_calculateCorrectPnlPercentage(position) ==
  LET initialValue == WD_calculateInitialValue(position)
  IN IF initialValue = Null THEN Null
     ELSE IF ~NumTruthy(initialValue) \/ position.pnl = Absent THEN Null
     ELSE NumMul(NumDiv(R(position.pnl[1]), initialValue), R(100))

\* WD_calculateCurrentPrice taking every position that is not short as long
WD_calculateCurrentPrice_AbsentIsLong(position) ==
  IF FalsyNum(position.entry_price) \/ position.pnl = Absent
     \/ FalsyNum(position.size) \/ FalsyNum(position.leverage)
  THEN Null
  ELSE LET initialValue ==
             NumDiv(R(IAbs(position.size[1] * position.entry_price[1])),
                    R(position.leverage[1]))
           returnPercentage == NumDiv(R(position.pnl[1]), initialValue)
       IN IF position.is_long # Some(FALSE)
          THEN NumMul(R(position.entry_price[1]),
                      NumAdd(R(1), NumDiv(returnPercentage,
                                          R(position.leverage[1]))))
          ELSE NumMul(R(position.entry_price[1]),
                      NumSub(R(1), NumDiv(returnPercentage,
                                          R(position.leverage[1]))))

WD_calculateCurrentPrice(position) ==
  IF FalsyNum(position.entry_price) \/ position.pnl = Absent
     \/ FalsyNum(position.size) \/ FalsyNum(position.leverage)
  THEN Null
  ELSE LET initialValue ==
             NumDiv(R(IAbs(position.size[1] * position.entry_price[1])),
                    R(position.leverage[1]))
           returnPercentage == NumDiv(R(position.pnl[1]), initialValue)
       IN IF IsLong(position)
          THEN NumMul(R(position.entry_price[1]),
                      NumAdd(R(1), NumDiv(returnPercentage,
                                          R(position.leverage[1]))))
          ELSE NumMul(R(position.entry_price[1]),
                      NumSub(R(1), NumDiv(returnPercentage,
                                          R(position.leverage[1]))))

\* analytics
AN_calculateCurrentPrice(position) ==
  IF FalsyNum(position.entry_price) \/ position.pnl = Absent
     \/ FalsyNum(position.size) \/ FalsyNum(position.leverage)
  THEN Null
  ELSE LET initialValue ==
             NumDiv(R(IAbs(position.size[1] * position.entry_price[1])),
                    R(position.leverage[1]))
           returnPercentage == NumDiv(R(position.pnl[1]), initialValue)
       IN IF IsLong(position)
          THEN NumMul(R(position.entry_price[1]),
                      NumAdd(R(1), NumDiv(returnPercentage,
                                          R(position.leverage[1]))))
          ELSE NumMul(R(position.entry_price[1]),
                      NumSub(R(1), NumDiv(returnPercentage,
                                          R(position.leverage[1]))))

\* the derived columns of one table row of the positions table
PT_Row(position) ==
  [position |-> position,
   initialValue |-> PT_calculateInitialValue(position),
   pnlPercentage |-> PT_calculateCorrectPnlPercentage(position),
   currentPrice |-> PT_calculateCurrentPrice(position)]

\* the derived columns of one table row of the wallet details
WD_Row(position) ==
  [position |-> position,
   initialValue |-> WD_calculateInitialValue(position),
   pnlPercentage |-> WD_calculateCorrectPnlPercentage(position),
   currentPrice |-> WD_calculateCurrentPrice(position)]

\* ------------------------------------------------------------------------
\* Analytics: the analytics memo of the Analytics component
\* ------------------------------------------------------------------------

\* A number of the form a + sqrt(b), a and b extended rationals, b >= 0:
\* Math.sqrt results are kept exact by carrying the radicand.
RootNum(a, b) == [a |-> a, b |-> b]

\* A number of the form sign * sqrt(b), sign in {-1, 0, 1}
SignedRoot(sign, b) == [sign |-> sign, b |-> b]

\* the value the memo returns for an empty allPositions
EmptyAnalytics ==
  [marketSentiment |->
     [bullish |-> R(0), bearish |-> R(0), sentiment |-> "neutral",
      confidence |-> R(0), volatility |-> RootNum(R(0), R(0))],
   assetAnalysis |-> <<>>,
   entryPriceAnalysis |->
     [earlyEntries |-> <<>>, recentEntries |-> <<>>,
      priceDistribution |-> <<>>, volatilityAnalysis |-> <<>>],
   patterns |->
     [unusual |-> <<>>, usual |-> <<>>, correlations |-> <<>>,
      seasonality |-> <<>>],
   tradingOpportunities |->
     [longSuggestions |-> <<>>, shortSuggestions |-> <<>>, arbitrage |-> <<>>,
      momentum |-> <<>>, aiRecommendations |-> <<>>],
   professionalTraderAnalysis |-> <<>>,
   riskMetrics |->
     [highRisk |-> 0, mediumRisk |-> 0, lowRisk |-> 0,
      riskScore |-> RootNum(R(0), R(0)),
      diversification |-> RootNum(R(0), R(0))],
   performanceMetrics |->
     [totalPnL |-> 0, winRate |-> R(0), avgPnL |-> R(0), totalVolume |-> 0,
      activePositions |-> 0, closedPositions |-> 0,
      sharpeRatio |-> SignedRoot(0, R(0)),
      maxDrawdown |-> R(0), profitFactor |-> R(0), avgHoldingTime |-> R(0),
      bestPerformer |-> Null, worstPerformer |-> Null],
   timeAnalysis |->
     [recentActivity |-> 0, oldActivity |-> 0, hourlyDistribution |-> <<>>,
      weeklyDistribution |-> <<>>, monthlyTrends |-> <<>>,
      seasonalPatterns |-> <<>>],
   leverageAnalysis |->
     [highLeverage |-> 0, mediumLeverage |-> 0, lowLeverage |-> 0,
      avgLeverage |-> R(0), leverageEfficiency |-> R(0),
      riskAdjustedReturns |-> [high |-> R(0), medium |-> R(0), low |-> R(0)]],
   walletAnalysis |->
     [uniqueWallets |-> 0, topPerformers |-> <<>>,
      concentrationRisk |-> R(0), diversityScore |-> R(0)],
   marketConditions |->
     [volatilityIndex |-> R(0), trendStrength |-> R(0),
      marketPhase |-> "neutral", correlationMatrix |-> <<>>],
   advancedMetrics |->
     [kellyCriterion |-> R(0), informationRatio |-> R(0),
      calmarRatio |-> R(0), sortinoRatio |-> R(0), treynorRatio |-> R(0)]]

\* sum of a sequence of integers
RECURSIVE SumInts(_, _)
SumInts(values, n) == IF n = 0 THEN 0 ELSE SumInts(values, n - 1) + values[n]

\* values.reduce((sum, v) => sum + Math.pow(v - avg, 2), 0)
RECURSIVE SumSquaredDev(_, _, _)
SumSquaredDev(values, avg, n) ==
  IF n = 0 THEN R(0)
  ELSE LET dev == NumSub(R(values[n]), avg)
       IN NumAdd(SumSquaredDev(values, avg, n - 1), NumMul(dev, dev))

\* the mean of the values: NaN for no values
MeanOf(values) == NumDiv(R(SumInts(values, Len(values))), R(Len(values)))

\* the population variance of the values: NaN for no values
VarianceOf(values) ==
  NumDiv(SumSquaredDev(values, MeanOf(values), Len(values)), R(Len(values)))

\* allPositions.map((p) => p.pnl || 0)
PnlsOf(positions) == [i \in 1..Len(positions) |-> OrZero(positions[i].pnl)]

\* allPositions.map((p) => p.pnl || 0).filter((pnl) => pnl !== 0)
PnlValues(positions) ==
  LET pnls == PnlsOf(positions)
  IN FilterSeq(pnls, {i \in 1..Len(pnls) : pnls[i] # 0}, Len(pnls))

\* (Math.sqrt(pnlVariance) / Math.abs(avgPnL)) * 100 || 0
SentimentVolatility(positions) ==
  LET pnlValues == PnlValues(positions)
      avgPnL == MeanOf(pnlValues)
      pnlVariance == VarianceOf(pnlValues)
      squared == NumMul(NumDiv(pnlVariance, NumMul(avgPnL, avgPnL)), R(10000))
  IN IF NumTruthy(squared) THEN RootNum(R(0), squared)
     ELSE RootNum(R(0), R(0))

\* the share among the positions of those whose is_long is the direction
DirectionPercentage(positions, direction) ==
  NumMul(NumDiv(R(Cardinality({i \in 1..Len(positions) :
                                positions[i].is_long = Some(direction)})),
                R(Len(positions))),
         R(100))

\* the overall sentiment: above 60% long, else above 60% short, else neutral
Sentiment(positions) ==
  IF NumGt(DirectionPercentage(positions, TRUE), R(60)) THEN "bullish"
  ELSE IF NumGt(DirectionPercentage(positions, FALSE), R(60)) THEN "bearish"
  ELSE "neutral"

\* the market sentiment section
MarketSentiment(positions) ==
  LET bullishPercentage == DirectionPercentage(positions, TRUE)
      bearishPercentage == DirectionPercentage(positions, FALSE)
  IN [bullish |-> bullishPercentage,
      bearish |-> bearishPercentage,
      sentiment |-> Sentiment(positions),
      confidence |-> NumAbs(NumSub(bullishPercentage, bearishPercentage)),
      volatility |-> SentimentVolatility(positions)]

\* the accumulator an asset starts from
NewAsset(asset) ==
  [asset |-> asset, longCount |-> 0, shortCount |-> 0, totalPnL |-> 0,
   totalVolume |-> 0, positions |-> <<>>]

\* index of the asset in the map, 0 when it has none
AssetIndex(assetMap, asset) ==
  IF \E i \in 1..Len(assetMap) : assetMap[i].asset = asset
  THEN CHOOSE i \in 1..Len(assetMap) : assetMap[i].asset = asset
  ELSE 0

\* one iteration of allPositions.forEach: the map keeps insertion order
\* AssetMapStep that counts a position without is_long in neither count
AssetMapStep_SkipUnknown(assetMap, position) ==
  IF FalsyStr(position.asset) THEN assetMap
  ELSE LET asset == position.asset[1]
           idx == AssetIndex(assetMap, asset)
           existing == IF idx = 0 THEN NewAsset(asset) ELSE assetMap[idx]
           updated ==
             [existing EXCEPT
                !.positions = Append(@, position),
                !.totalPnL = @ + OrZero(position.pnl),
                !.totalVolume = @ + OrZero(position.size),
                !.longCount = IF IsLong(position) THEN @ + 1 ELSE @,
                !.shortCount =
                  IF position.is_long = Some(FALSE) THEN @ + 1 ELSE @]
       IN IF idx = 0 THEN Append(assetMap, updated)
          ELSE [assetMap EXCEPT ![idx] = updated]

AssetMapStep(assetMap, position) ==
  IF FalsyStr(position.asset) THEN assetMap
  ELSE LET asset == position.asset[1]
           idx == AssetIndex(assetMap, asset)
           existing == IF idx = 0 THEN NewAsset(asset) ELSE assetMap[idx]
           updated ==
             [existing EXCEPT
                !.positions = Append(@, position),
                !.totalPnL = @ + OrZero(position.pnl),
                !.totalVolume = @ + OrZero(position.size),
                !.longCount = IF IsLong(position) THEN @ + 1 ELSE @,
                !.shortCount = IF IsLong(position) THEN @ ELSE @ + 1]
       IN IF idx = 0 THEN Append(assetMap, updated)
          ELSE [assetMap EXCEPT ![idx] = updated]

RECURSIVE AssetMap(_, _)
AssetMap(positions, n) ==
  IF n = 0 THEN <<>>
  ELSE AssetMapStep(AssetMap(positions, n - 1), positions[n])

\* AssetDrawdownStep with runningPnL assigned instead of accumulated
AssetDrawdownStep_NoAccumulate(acc, position) ==
  LET runningPnL == OrZero(position.pnl)
      peak == IF runningPnL > acc.peak THEN runningPnL ELSE acc.peak
      drawdown == NumMul(NumDiv(R(peak - runningPnL), R(IAbs(peak))), R(100))
  IN [peak |-> peak,
      maxDD |-> IF NumGt(drawdown, acc.maxDD) THEN drawdown ELSE acc.maxDD,
      runningPnL |-> runningPnL]

\* one step of the per-asset drawdown walk over [peak, maxDD, runningPnL]
AssetDrawdownStep(acc, position) ==
  LET runningPnL == acc.runningPnL + OrZero(position.pnl)
      peak == IF runningPnL > acc.peak THEN runningPnL ELSE acc.peak
      drawdown == NumMul(NumDiv(R(peak - runningPnL), R(IAbs(peak))), R(100))
  IN [peak |-> peak,
      maxDD |-> IF NumGt(drawdown, acc.maxDD) THEN drawdown ELSE acc.maxDD,
      runningPnL |-> runningPnL]

RECURSIVE AssetDrawdownWalk(_, _)
AssetDrawdownWalk(positions, n) ==
  IF n = 0 THEN [peak |-> 0, maxDD |-> R(0), runningPnL |-> 0]
  ELSE AssetDrawdownStep(AssetDrawdownWalk(positions, n - 1), positions[n])

\* asset.maxDrawdown
AssetMaxDrawdown(positions) == AssetDrawdownWalk(positions, Len(positions)).maxDD

\* sum of a sequence of numbers
RECURSIVE SumNums(_, _)
SumNums(values, n) ==
  IF n = 0 THEN R(0) ELSE NumAdd(SumNums(values, n - 1), values[n])

\* the derived fields of one asset
AssetDerived(asset) ==
  LET positions == asset.positions
      idx == 1..Len(positions)
      withEntry == {i \in idx : positions[i].entry_price # Absent}
      entrySum == SumInts([i \in idx |-> OrZero(positions[i].entry_price)],
                          Len(positions))
      avgEntryPrice == IF Cardinality(withEntry) > 0
                       THEN NumDiv(R(entrySum), R(Cardinality(withEntry)))
                       ELSE R(0)
      assetPnLs == PnlsOf(positions)
      winningTrades == Cardinality({i \in idx : assetPnLs[i] > 0})
      withLeverage == {i \in idx : OrZero(positions[i].leverage) > 0}
      leverageSum ==
        SumInts([i \in idx |-> IF i \in withLeverage
                               THEN positions[i].leverage[1] ELSE 0],
                Len(positions))
      allPrices == [i \in idx |-> AN_calculateCurrentPrice(positions[i])]
      currentPrices ==
        FilterSeq(allPrices, {i \in idx : allPrices[i] # Null}, Len(positions))
      currentPrice == IF Len(currentPrices) > 0
                      THEN NumDiv(SumNums(currentPrices, Len(currentPrices)),
                                  R(Len(currentPrices)))
                      ELSE avgEntryPrice
  IN [asset |-> asset.asset,
      longCount |-> asset.longCount,
      shortCount |-> asset.shortCount,
      totalPnL |-> asset.totalPnL,
      totalVolume |-> asset.totalVolume,
      positions |-> positions,
      avgEntryPrice |-> avgEntryPrice,
      sentiment |-> IF asset.longCount > asset.shortCount THEN "bullish"
                    ELSE "bearish",
      totalPositions |-> asset.longCount + asset.shortCount,
      winRate |-> NumMul(NumDiv(R(winningTrades), R(Len(positions))), R(100)),
      avgLeverage |-> IF Cardinality(withLeverage) > 0
                      THEN NumDiv(R(leverageSum), R(Cardinality(withLeverage)))
                      ELSE R(0),
      currentPrices |-> currentPrices,
      currentPrice |-> currentPrice,
      priceChange |->
        IF NumGt(avgEntryPrice, R(0))
        THEN NumMul(NumDiv(NumSub(currentPrice, avgEntryPrice), avgEntryPrice),
                    R(100))
        ELSE R(0),
      volatility |-> RootNum(R(0), VarianceOf(assetPnLs)),
      maxDrawdown |-> AssetMaxDrawdown(positions)]

\* insert into a list ordered by totalPositions descending, after its equals
RECURSIVE InsertByTotal(_, _)
InsertByTotal(sorted, asset) ==
  IF sorted = <<>> THEN <<asset>>
  ELSE IF sorted[Len(sorted)].totalPositions >= asset.totalPositions
  THEN Append(sorted, asset)
  ELSE Append(InsertByTotal(SubSeq(sorted, 1, Len(sorted) - 1), asset),
              sorted[Len(sorted)])

\* .sort((a, b) => b.totalPositions - a.totalPositions), a stable sort
RECURSIVE SortByTotal(_, _)
SortByTotal(assets, n) ==
  IF n = 0 THEN <<>>
  ELSE InsertByTotal(SortByTotal(assets, n - 1), assets[n])

AssetAnalysis(positions) ==
  LET assetMap == AssetMap(positions, Len(positions))
      derived == [i \in 1..Len(assetMap) |-> AssetDerived(assetMap[i])]
  IN SortByTotal(derived, Len(derived))

\* Math.max(...assetAnalysis.map((a) => a.maxDrawdown)): -Infinity for none
RECURSIVE MaxOfDrawdowns(_, _)
MaxOfDrawdowns(assetAnalysis, n) ==
  IF n = 0 THEN NegInfinity
  ELSE NumMax(MaxOfDrawdowns(assetAnalysis, n - 1), assetAnalysis[n].maxDrawdown)

\* the four risk factors, volatilityRisk as its square
RiskFactors(positions, assetAnalysis, volatility, highRisk) ==
  [highLeverageRatio |->
     NumMul(NumDiv(R(highRisk), R(Len(positions))), R(40)),
   concentrationRisk |->
     IF Len(assetAnalysis) > 0
     THEN NumMul(NumDiv(R(assetAnalysis[1].totalPositions), R(Len(positions))),
                 R(30))
     ELSE R(0),
   volatilityRiskSquared |-> NumMin(NumDiv(volatility.b, R(100)), R(400)),
   drawdownRisk |->
     NumMin(NumDiv(MaxOfDrawdowns(assetAnalysis, Len(assetAnalysis)), R(5)),
            R(10))]

\* Object.values(riskFactors).reduce((sum, risk) => sum + risk, 0)
RiskScore(riskFactors) ==
  RootNum(NumAdd(NumAdd(riskFactors.highLeverageRatio,
                        riskFactors.concentrationRisk),
                 riskFactors.drawdownRisk),
          riskFactors.volatilityRiskSquared)

\* the risk section
RiskMetrics(positions, assetAnalysis, volatility) ==
  LET idx == 1..Len(positions)
      highRisk ==
        Cardinality({i \in idx : OrZero(positions[i].leverage) > 25
                                   \/ IAbs(OrZero(positions[i].pnl)) > 50000})
      mediumRisk ==
        Cardinality({i \in idx :
                       \/ /\ OrZero(positions[i].leverage) >= 10
                          /\ OrZero(positions[i].leverage) <= 25
                       \/ /\ IAbs(OrZero(positions[i].pnl)) >= 10000
                          /\ IAbs(OrZero(positions[i].pnl)) <= 50000})
      uniqueAssets == Len(assetAnalysis)
  IN [highRisk |-> highRisk,
      mediumRisk |-> mediumRisk,
      lowRisk |-> Len(positions) - highRisk - mediumRisk,
      riskScore |->
        RiskScore(RiskFactors(positions, assetAnalysis, volatility, highRisk)),
      diversification |->
        IF uniqueAssets > 0
        THEN RootNum(R(0),
                     NumMin(NumMul(NumDiv(R(uniqueAssets * uniqueAssets),
                                          R(Len(positions))), R(10000)),
                            R(10000)))
        ELSE RootNum(R(0), R(0))]

\* one step of the portfolio drawdown walk over [peak, maxDrawdown, runningPnL]
PortfolioDrawdownStep(acc, position) ==
  LET runningPnL == acc.runningPnL + OrZero(position.pnl)
      peak == IF runningPnL > acc.peak THEN runningPnL ELSE acc.peak
      drawdown == IF peak > 0
                  THEN NumMul(NumDiv(R(peak - runningPnL), R(peak)), R(100))
                  ELSE R(0)
  IN [peak |-> peak,
      maxDrawdown |-> IF NumGt(drawdown, acc.maxDrawdown) THEN drawdown
                      ELSE acc.maxDrawdown,
      runningPnL |-> runningPnL]

RECURSIVE PortfolioDrawdownWalk(_, _)
PortfolioDrawdownWalk(positions, n) ==
  IF n = 0 THEN [peak |-> 0, maxDrawdown |-> R(0), runningPnL |-> 0]
  ELSE PortfolioDrawdownStep(PortfolioDrawdownWalk(positions, n - 1),
                             positions[n])

\* performanceMetrics.maxDrawdown
PortfolioMaxDrawdown(positions) ==
  PortfolioDrawdownWalk(positions, Len(positions)).maxDrawdown

\* the performance section
PerformanceMetrics(positions) ==
  LET idx == 1..Len(positions)
      returns == PnlsOf(positions)
      winningPositions == Cardinality({i \in idx : returns[i] > 0})
      winningPnL ==
        SumInts([i \in idx |-> IF returns[i] > 0 THEN returns[i] ELSE 0],
                Len(positions))
      losingPnL ==
        IAbs(SumInts([i \in idx |-> IF returns[i] < 0 THEN returns[i] ELSE 0],
                     Len(positions)))
      avgReturn == MeanOf(returns)
      returnVariance == VarianceOf(returns)
  IN [totalPnL |-> SumPnl(positions, Len(positions)),
      winRate |-> NumMul(NumDiv(R(winningPositions), R(Len(positions))), R(100)),
      avgPnL |-> MeanOf(PnlValues(positions)),
      totalVolume |-> SumSize(positions, Len(positions)),
      activePositions |->
        Cardinality({i \in idx : positions[i].status = Some("active")}),
      closedPositions |->
        Cardinality({i \in idx : positions[i].status # Some("active")}),
      sharpeRatio |->
        IF NumGt(returnVariance, R(0))
        THEN SignedRoot(ISign(avgReturn[1]),
                        NumDiv(NumMul(avgReturn, avgReturn), returnVariance))
        ELSE SignedRoot(0, R(0)),
      maxDrawdown |-> PortfolioMaxDrawdown(positions),
      profitFactor |-> IF losingPnL > 0 THEN NumDiv(R(winningPnL), R(losingPnL))
                       ELSE IF winningPnL > 0 THEN R(999) ELSE R(0)]

\* ------------------------------------------------------------------------
\* Signal strengths as IEEE-754 doubles
\*
\* The signal strengths are decimal literals (0.8, 0.9, ...) that have no
\* exact double, and the scores are sums of them, so the comparison of the
\* scores depends on the rounding of every sum.  A double d with 0 <= d < 8
\* is kept exact as the integer d * 2^55, written <<h, l>> for h * 2^28 + l
\* with 0 <= l < 2^28; a result is rounded to 53 significant bits, ties to
\* even, as the hardware does.
\* ------------------------------------------------------------------------

\* the weight of the high limb
Limb == 2^28

\* number of low bits of d * 2^55 that a double of the binade of d lacks
DblDropBits(h) ==
  IF h < 2^25 THEN 0 ELSE IF h < 2^26 THEN 1 ELSE IF h < 2^27 THEN 2
  ELSE IF h < 2^28 THEN 3 ELSE IF h < 2^29 THEN 4 ELSE 5

\* round to nearest, ties to even; sticky tells that bits below l were cut
DblRound(h, l, sticky) ==
  LET unit == 2^DblDropBits(h)
      q == l \div unit
      r == l % unit
      up == /\ unit > 1
            /\ \/ 2 * r > unit
               \/ 2 * r = unit /\ (sticky \/ q % 2 = 1)
      low == (IF up THEN q + 1 ELSE q) * unit
  IN IF low = Limb THEN <<h + 1, 0>> ELSE <<h, low>>

\* the double of the decimal literal tenths/10
DblOfTenths(tenths) ==
  LET n == tenths * 2^26
      m == (n % 5) * Limb
  IN DblRound(n \div 5, m \div 5, m % 5 > 0)

\* x + y
DblAdd(x, y) ==
  LET l == x[2] + y[2]
  IN DblRound(x[1] + y[1] + (l \div Limb), l % Limb, FALSE)

\* x - y for x >= y
DblSub(x, y) ==
  LET l == x[2] - y[2]
  IN IF l < 0 THEN DblRound(x[1] - y[1] - 1, l + Limb, FALSE)
     ELSE DblRound(x[1] - y[1], l, FALSE)

\* x > y
DblGt(x, y) == x[1] > y[1] \/ (x[1] = y[1] /\ x[2] > y[2])

\* DblConfidence with the cap at 100 instead of 95
DblConfidence_CapAt100(x) ==
  IF ~DblGt(<<19 * 2^24, 0>>, x) THEN 100
  ELSE ((5 * x[1] + ((5 * x[2]) \div Limb)) + 2^23) \div 2^24

\* Math.round(Math.min((x / 2.5) * 100, 95)): the nearest integer to 40 * x
\* (the two further roundings move the value by less than 2^-40, and 40 * x
\* is never that close to a half for a difference of sums of tenths)
DblConfidence(x) ==
  IF ~DblGt(<<19 * 2^24, 0>>, x) THEN 95
  ELSE ((5 * x[1] + ((5 * x[2]) \div Limb)) + 2^23) \div 2^24

\* ------------------------------------------------------------------------
\* Pattern analysis
\* ------------------------------------------------------------------------

\* the main coins of the pattern analysis
MainCoins ==
  {"BTC", "ETH", "USDT", "BNB", "SOL", "XRP", "USDC", "ADA", "AVAX", "DOGE",
   "TRX", "DOT", "MATIC", "LTC", "SHIB", "BCH", "NEAR", "UNI", "ATOM", "FTM",
   "LINK", "APT", "ICP", "FIL", "ARB", "VET", "MKR", "AAVE", "GRT", "SAND"}

\* isMainCoin for an asset symbol in upper case that holds the name of a
\* main coin only when it is that name (substring search is not modelled)
IsMainCoin(asset) == asset \in MainCoins

\* p.asset && !isMainCoin(p.asset)
IsRandomCoin(position) ==
  ~FalsyStr(position.asset) /\ ~IsMainCoin(position.asset[1])

\* created_at is present and less than days old
IsRecent(position, days) ==
  position.created_at # Absent /\ position.created_at[1] < days

\* a Pattern record (description and impact are texts and are left out)
Pattern(type, count, significance) ==
  [type |-> type, count |-> count, significance |-> significance]

PushIfAny_Always(type, matches, significance) ==
  <<Pattern(type, Cardinality(matches), significance)>>

\* if (matches.length > 0) unusualPatterns.push({...})
PushIfAny(type, matches, significance) ==
  IF Cardinality(matches) > 0
  THEN <<Pattern(type, Cardinality(matches), significance)>>
  ELSE <<>>

\* the positions with a leverage above the threshold
LeverageAbove(positions, threshold) ==
  {i \in 1..Len(positions) : OrZero(positions[i].leverage) > threshold}

\* the positions with a size above 1000000
WhalePositions(positions) ==
  {i \in 1..Len(positions) : OrZero(positions[i].size) > 1000000}

\* the positions against the sentiment with a PnL above 1000
Contrarian(positions, sentiment) ==
  {i \in 1..Len(positions) :
     /\ \/ sentiment = "bullish" /\ ~IsLong(positions[i])
        \/ sentiment = "bearish" /\ IsLong(positions[i])
     /\ OrZero(positions[i].pnl) > 1000}

\* the positions with the sentiment
FollowTrend(positions, sentiment) ==
  {i \in 1..Len(positions) :
     \/ sentiment = "bullish" /\ IsLong(positions[i])
     \/ sentiment = "bearish" /\ ~IsLong(positions[i])}

\* the positions with a PnL above 10000 entered below 100
HighPnLLowEntry(positions) ==
  {i \in 1..Len(positions) :
     /\ OrZero(positions[i].pnl) > 10000
     /\ OrZero(positions[i].entry_price) < 100}

\* the positions created within 7 days with a PnL above 5000
PerfectTiming(positions) ==
  {i \in 1..Len(positions) :
     IsRecent(positions[i], 7) /\ OrZero(positions[i].pnl) > 5000}

\* the positions on random coins with a high leverage, size or PnL
HighConfidenceRandomCoins(positions) ==
  {i \in 1..Len(positions) :
     /\ IsRandomCoin(positions[i])
     /\ \/ OrZero(positions[i].leverage) > 30
        \/ OrZero(positions[i].size) > 500000
        \/ IAbs(OrZero(positions[i].pnl)) > 25000}

\* the positions on random coins with a size above 1000000
LargeBetsRandomCoins(positions) ==
  {i \in 1..Len(positions) :
     IsRandomCoin(positions[i]) /\ OrZero(positions[i].size) > 1000000}

\* the positions on random coins created within 14 days with a PnL above
\* 10000
PerfectTimingRandomCoins(positions) ==
  {i \in 1..Len(positions) :
     /\ ~FalsyStr(positions[i].asset)
     /\ IsRecent(positions[i], 14)
     /\ OrZero(positions[i].pnl) > 10000
     /\ ~IsMainCoin(positions[i].asset[1])}

\* the rules of the first Analytics variant in the order of their pushes:
\* the type, the matching positions and the significance of each
UnusualRules(positions, sentiment) ==
  <<<<"High Confidence Bets on Obscure Coins",
      HighConfidenceRandomCoins(positions), "high">>,
    <<"Ultra High Leverage Trading (>75x)", LeverageAbove(positions, 75),
      "high">>,
    <<"Million Dollar Bets on Obscure Coins", LargeBetsRandomCoins(positions),
      "high">>,
    <<"Perfect Timing on Obscure Coins", PerfectTimingRandomCoins(positions),
      "high">>,
    <<"High PnL with Low Entry Price", HighPnLLowEntry(positions), "high">>,
    <<"Extreme Leverage Trading", LeverageAbove(positions, 50), "high">>,
    <<"Whale Activity", WhalePositions(positions), "high">>,
    <<"Perfect Market Timing", PerfectTiming(positions), "high">>,
    <<"Successful Contrarian Plays", Contrarian(positions, sentiment),
      "medium">>>>

\* the rules of the second Analytics variant in the order of their pushes
UnusualRulesVariant2(positions, sentiment) ==
  <<<<"High PnL with Low Entry Price", HighPnLLowEntry(positions), "high">>,
    <<"Extreme Leverage Trading", LeverageAbove(positions, 50), "high">>,
    <<"Whale Activity", WhalePositions(positions), "high">>,
    <<"Perfect Market Timing", PerfectTiming(positions), "high">>,
    <<"Successful Contrarian Plays", Contrarian(positions, sentiment),
      "medium">>>>

\* the pushes of the first n rules
RECURSIVE PushRules(_, _)
PushRules(rules, n) ==
  IF n = 0 THEN <<>>
  ELSE PushRules(rules, n - 1)
       \o PushIfAny(rules[n][1], rules[n][2], rules[n][3])

\* unusualPatterns after the battery of rules
UnusualPatterns(positions, sentiment) ==
  PushRules(UnusualRules(positions, sentiment), 9)

\* unusualPatterns of the second Analytics variant
UnusualPatternsVariant2(positions, sentiment) ==
  PushRules(UnusualRulesVariant2(positions, sentiment), 5)

UsualPatterns_OnlyMatched(positions, sentiment) ==
  LET moderateLeverage ==
        {i \in 1..Len(positions) :
           /\ OrZero(positions[i].leverage) >= 5
           /\ OrZero(positions[i].leverage) <= 20}
  IN PushIfAny("Moderate Leverage Usage", moderateLeverage, "medium")
     \o PushIfAny("Trend Following", FollowTrend(positions, sentiment), "low")

\* usualPatterns: both patterns are pushed whatever their count
UsualPatterns(positions, sentiment) ==
  LET moderateLeverage ==
        {i \in 1..Len(positions) :
           /\ OrZero(positions[i].leverage) >= 5
           /\ OrZero(positions[i].leverage) <= 20}
  IN <<Pattern("Moderate Leverage Usage", Cardinality(moderateLeverage),
               "medium"),
       Pattern("Trend Following",
               Cardinality(FollowTrend(positions, sentiment)), "low")>>

\* patterns of the memo for a snapshot with positions (unusual and usual)
Patterns(positions, sentiment) ==
  [unusual |-> UnusualPatterns(positions, sentiment),
   usual |-> UsualPatterns(positions, sentiment)]

\* patterns of the memo of the second Analytics variant (unusual and usual)
PatternsVariant2(positions) ==
  IF Len(positions) = 0 THEN [unusual |-> <<>>, usual |-> <<>>]
  ELSE LET sentiment == Sentiment(positions)
       IN [unusual |-> UnusualPatternsVariant2(positions, sentiment),
           usual |-> UsualPatterns(positions, sentiment)]

\* ------------------------------------------------------------------------
\* Trading opportunities: the recommendation of every asset
\* ------------------------------------------------------------------------

\* the positions of the asset without extreme PnL, and their statistics
SmartMoney(asset) ==
  LET all == asset.positions
      smartMoneyPositions ==
        FilterSeq(all,
                  {i \in 1..Len(all) :
                     /\ IAbs(OrZero(all[i].pnl)) < 50000
                     /\ OrZero(all[i].pnl) > -25000},
                  Len(all))
      idx == 1..Len(smartMoneyPositions)
      total == Len(smartMoneyPositions)
      longPositions == Cardinality({i \in idx : IsLong(smartMoneyPositions[i])})
      shortPositions ==
        Cardinality({i \in idx : ~IsLong(smartMoneyPositions[i])})
      winning ==
        Cardinality({i \in idx : OrZero(smartMoneyPositions[i].pnl) > 0})
  IN [positions |-> smartMoneyPositions,
      longPositions |-> longPositions,
      shortPositions |-> shortPositions,
      longPercentage |-> NumMul(NumDiv(R(longPositions), R(total)), R(100)),
      shortPercentage |-> NumMul(NumDiv(R(shortPositions), R(total)), R(100)),
      avgSmartPnL |-> NumDiv(R(SumPnl(smartMoneyPositions, total)), R(total)),
      winRate |-> NumMul(NumDiv(R(winning), R(total)), R(100))]

\* a fired signal; the strength is the numerator of the literal, in tenths
Signal(type, tenths) == [type |-> type, strength |-> tenths]

\* asset.positions.reduce((sum, p) => sum + Math.abs(p.size || 0), 0)
RECURSIVE SumAbsSize(_, _)
SumAbsSize(positions, n) ==
  IF n = 0 THEN 0
  ELSE SumAbsSize(positions, n - 1) + IAbs(OrZero(positions[n].size))

\* the signals pushed by generateAIRecommendation, in the order of the pushes
RecommendationSignals(asset, smart) ==
  (IF NumGt(smart.winRate, R(65)) THEN <<Signal("bullish", 8)>>
   ELSE IF NumLt(smart.winRate, R(35)) THEN <<Signal("bearish", 8)>>
   ELSE <<>>)
  \o (IF NumGt(smart.avgSmartPnL, R(2000)) THEN <<Signal("bullish", 9)>>
      ELSE IF NumLt(smart.avgSmartPnL, R(-2000)) THEN <<Signal("bearish", 9)>>
      ELSE <<>>)
  \o (IF NumGt(smart.longPercentage, R(70)) THEN <<Signal("bullish", 7)>>
      ELSE IF NumGt(smart.shortPercentage, R(70))
      THEN <<Signal("bearish", 7)>>
      ELSE <<>>)
  \o (IF SumAbsSize(asset.positions, Len(asset.positions)) > 5000000
      THEN <<Signal("bullish", 6)>> ELSE <<>>)
  \o (IF NumGt(asset.avgLeverage, R(25)) THEN <<Signal("bearish", 5)>>
      ELSE IF NumGt(asset.avgLeverage, R(0)) /\ NumLt(asset.avgLeverage, R(10))
      THEN <<Signal("bullish", 3)>>
      ELSE <<>>)
  \o (IF NumLt(asset.avgEntryPrice, R(100)) /\ NumGt(smart.avgSmartPnL, R(0))
      THEN <<Signal("bullish", 6)>> ELSE <<>>)
  \o (IF asset.totalPositions >= 10 THEN <<Signal("bullish", 4)>> ELSE <<>>)

\* signals.filter((s) => s.type === type).reduce((sum, s) => sum +
\* s.strength, 0) over the first n signals
RECURSIVE ScoreOf(_, _, _)
ScoreOf(signals, type, n) ==
  IF n = 0 THEN <<0, 0>>
  ELSE IF signals[n].type = type
  THEN DblAdd(ScoreOf(signals, type, n - 1), DblOfTenths(signals[n].strength))
  ELSE ScoreOf(signals, type, n - 1)

\* the record generateAIRecommendation returns for the asset
GenerateAIRecommendation(asset, smart) ==
  LET signals == RecommendationSignals(asset, smart)
      bullishScore == ScoreOf(signals, "bullish", Len(signals))
      bearishScore == ScoreOf(signals, "bearish", Len(signals))
      long == DblGt(bullishScore, DblAdd(bearishScore, DblOfTenths(3)))
      short == DblGt(bearishScore, DblAdd(bullishScore, DblOfTenths(3)))
  IN [asset |-> asset.asset,
      recommendation |-> IF long THEN "LONG" ELSE IF short THEN "SHORT"
                         ELSE "HOLD",
      confidence |->
        IF long THEN DblConfidence(DblSub(bullishScore, bearishScore))
        ELSE IF short THEN DblConfidence(DblSub(bearishScore, bullishScore))
        ELSE 40,
      entryPrice |-> asset.avgEntryPrice,
      totalPositions |-> asset.totalPositions,
      winRate |-> smart.winRate,
      avgPnL |-> smart.avgSmartPnL,
      riskLevel |-> IF NumLt(asset.maxDrawdown, R(20)) THEN "Low"
                    ELSE IF NumLt(asset.maxDrawdown, R(40)) THEN "Medium"
                    ELSE "High",
      volume |-> SumAbsSize(asset.positions, Len(asset.positions)),
      leverage |-> asset.avgLeverage,
      signals |->
        [bullish |->
           Cardinality({i \in 1..Len(signals) : signals[i].type = "bullish"}),
         bearish |->
           Cardinality({i \in 1..Len(signals) : signals[i].type = "bearish"})]]

\* insert into a list ordered by confidence descending, after its equals
RECURSIVE InsertByConfidence(_, _)
InsertByConfidence(sorted, rec) ==
  IF sorted = <<>> THEN <<rec>>
  ELSE IF sorted[Len(sorted)].confidence >= rec.confidence
  THEN Append(sorted, rec)
  ELSE Append(InsertByConfidence(SubSeq(sorted, 1, Len(sorted) - 1), rec),
              sorted[Len(sorted)])

\* aiRecommendations.sort((a, b) => b.confidence - a.confidence)
RECURSIVE SortByConfidence(_, _)
SortByConfidence(recs, n) ==
  IF n = 0 THEN <<>>
  ELSE InsertByConfidence(SortByConfidence(recs, n - 1), recs[n])

\* the pushes of assetAnalysis.forEach over the first n assets
RECURSIVE AiRecommendationPushes(_, _)
AiRecommendationPushes(assetAnalysis, n) ==
  IF n = 0 THEN <<>>
  ELSE LET asset == assetAnalysis[n]
           smart == SmartMoney(asset)
           before == AiRecommendationPushes(assetAnalysis, n - 1)
       IN IF Len(smart.positions) >= 3 /\ asset.totalPositions >= 1
          THEN Append(before, GenerateAIRecommendation(asset, smart))
          ELSE before

\* tradingOpportunities.aiRecommendations
AiRecommendations(assetAnalysis) ==
  LET pushed == AiRecommendationPushes(assetAnalysis, Len(assetAnalysis))
  IN SortByConfidence(pushed, Len(pushed))

\* ------------------------------------------------------------------------
\* Trading opportunities: the long and the short suggestions
\* ------------------------------------------------------------------------

\* count * x for a small integer count, as the double product
DblTimes(count, x) ==
  LET half == 2^14
      low == count * (x[2] % half)
      mid == count * (x[2] \div half) + (low \div half)
  IN DblRound(count * x[1] + (mid \div half),
              (mid % half) * half + (low % half), FALSE)

\* the double of the literal 0.1: 3602879701896397 / 2^55
DblTenth == <<13421772, 214748365>>

\* recentPnL / recentPositions.length over the positions created within 30
\* days, 0 without any
AvgRecentPnL(asset) ==
  LET positions == asset.positions
      recentPositions ==
        FilterSeq(positions,
                  {i \in 1..Len(positions) : IsRecent(positions[i], 30)},
                  Len(positions))
  IN IF Len(recentPositions) > 0
     THEN NumDiv(R(SumPnl(recentPositions, Len(recentPositions))),
                 R(Len(recentPositions)))
     ELSE R(0)

\* a suggestion; professionalCount is Absent for the strategies without one
Suggestion(asset, confidence, strategy, professionalCount) ==
  [asset |-> asset, confidence |-> confidence, strategy |-> strategy,
   professionalCount |-> professionalCount]

\* longPercentage > 75 ? "high" : longPercentage > 65 ? "medium" : "low"
ShareConfidence(percentage) ==
  IF NumGt(percentage, R(75)) THEN "high"
  ELSE IF NumGt(percentage, R(65)) THEN "medium"
  ELSE "low"

\* avgSmartPnL < -2000 && avgSmartPnL > -10000 && winRate < 40
ContrarianGate(smart) ==
  /\ NumLt(smart.avgSmartPnL, R(-2000))
  /\ NumGt(smart.avgSmartPnL, R(-10000))
  /\ NumLt(smart.winRate, R(40))

\* the pushes to longSuggestions for one asset, in their order
LongSuggestionsOf(asset, smart) ==
  (IF /\ NumGt(smart.longPercentage, R(60))
      /\ NumGt(smart.avgSmartPnL, R(-1000))
      /\ NumGt(smart.winRate, R(45))
   THEN <<Suggestion(asset.asset, ShareConfidence(smart.longPercentage),
                     "Smart Money Following", Some(smart.longPositions))>>
   ELSE <<>>)
  \o (IF /\ ContrarianGate(smart)
         /\ ~NumGt(smart.longPercentage, R(60))
         /\ NumGt(smart.shortPercentage, R(60))
      THEN <<Suggestion(asset.asset, "medium", "Contrarian",
                        Some(smart.shortPositions))>>
      ELSE <<>>)
  \o (IF /\ asset.sentiment = "bullish"
         /\ NumGt(AvgRecentPnL(asset), R(0))
         /\ NumLt(asset.avgEntryPrice, R(500))
         /\ NumGt(asset.winRate, R(60))
      THEN <<Suggestion(asset.asset, "high", "Technical Analysis", Absent)>>
      ELSE <<>>)
  \o (IF /\ NumGt(asset.maxDrawdown, R(50))
         /\ asset.totalPnL > 0
         /\ NumGt(asset.winRate, R(55))
      THEN <<Suggestion(asset.asset, "medium", "Mean Reversion", Absent)>>
      ELSE <<>>)

\* the pushes to shortSuggestions for one asset, in their order
ShortSuggestionsOf(asset, smart) ==
  (IF /\ NumGt(smart.shortPercentage, R(60))
      /\ NumGt(smart.avgSmartPnL, R(-1000))
      /\ NumGt(smart.winRate, R(45))
   THEN <<Suggestion(asset.asset, ShareConfidence(smart.shortPercentage),
                     "Smart Money Following", Some(smart.shortPositions))>>
   ELSE <<>>)
  \o (IF ContrarianGate(smart) /\ NumGt(smart.longPercentage, R(60))
      THEN <<Suggestion(asset.asset, "medium", "Contrarian",
                        Some(smart.longPositions))>>
      ELSE <<>>)
  \o (IF /\ asset.sentiment = "bearish"
         /\ NumLt(AvgRecentPnL(asset), R(0))
         /\ NumGt(asset.avgEntryPrice, R(1000))
         /\ NumGt(asset.maxDrawdown, R(30))
      THEN <<Suggestion(asset.asset, "medium", "Technical Analysis", Absent)>>
      ELSE <<>>)

\* the pushes of assetAnalysis.forEach over the first n assets to the long
\* (long = TRUE) or the short suggestions
RECURSIVE SuggestionPushes(_, _, _)
SuggestionPushes(assetAnalysis, n, long) ==
  IF n = 0 THEN <<>>
  ELSE LET asset == assetAnalysis[n]
           smart == SmartMoney(asset)
           before == SuggestionPushes(assetAnalysis, n - 1, long)
       IN IF Len(smart.positions) >= 3
          THEN before \o (IF long THEN LongSuggestionsOf(asset, smart)
                          ELSE ShortSuggestionsOf(asset, smart))
          ELSE before

\* confidenceScore[confidence] || 0
ConfidenceScore(confidence) ==
  IF confidence = "high" THEN 3
  ELSE IF confidence = "medium" THEN 2
  ELSE IF confidence = "low" THEN 1
  ELSE 0

\* (confidenceScore[a.confidence] || 0) + (a.professionalCount || 0) * 0.1
SuggestionScore(suggestion) ==
  DblAdd(<<ConfidenceScore(suggestion.confidence) * 2^27, 0>>,
         DblTimes(OrZero(suggestion.professionalCount), DblTenth))

\* insert into a list ordered by score descending, after its equals
RECURSIVE InsertByScore(_, _)
InsertByScore(sorted, suggestion) ==
  IF sorted = <<>> THEN <<suggestion>>
  ELSE IF ~DblGt(SuggestionScore(suggestion),
                 SuggestionScore(sorted[Len(sorted)]))
  THEN Append(sorted, suggestion)
  ELSE Append(InsertByScore(SubSeq(sorted, 1, Len(sorted) - 1), suggestion),
              sorted[Len(sorted)])

\* suggestions.sort((a, b) => bScore - aScore), a stable sort
RECURSIVE SortByScore(_, _)
SortByScore(suggestions, n) ==
  IF n = 0 THEN <<>>
  ELSE InsertByScore(SortByScore(suggestions, n - 1), suggestions[n])

\* LongSuggestions without the sort
LongSuggestions_Unsorted(assetAnalysis) ==
  SuggestionPushes(assetAnalysis, Len(assetAnalysis), TRUE)

\* tradingOpportunities.longSuggestions
LongSuggestions(assetAnalysis) ==
  LET pushed == SuggestionPushes(assetAnalysis, Len(assetAnalysis), TRUE)
  IN SortByScore(pushed, Len(pushed))

\* tradingOpportunities.shortSuggestions
ShortSuggestions(assetAnalysis) ==
  LET pushed == SuggestionPushes(assetAnalysis, Len(assetAnalysis), FALSE)
  IN SortByScore(pushed, Len(pushed))

\* the analysis of the asset in the second Analytics variant evaluates a
\* reason text that calls formatCurrency
CallsFormatCurrency(asset) ==
  LET smart == SmartMoney(asset)
  IN /\ Len(smart.positions) >= 3
     /\ ContrarianGate(smart)
     /\ \/ NumGt(smart.longPercentage, R(60))
        \/ NumGt(smart.shortPercentage, R(60))

\* the outcome of the useMemo callback of the second Analytics variant: it
\* runs during the render, before the const formatCurrency declared below
\* it is initialised, so that a call of formatCurrency throws
AnalysisPassVariant2(positions) ==
  IF Len(positions) = 0 THEN "completes"
  ELSE LET assetAnalysis == AssetAnalysis(positions)
       IN IF \E i \in 1..Len(assetAnalysis) :
                CallsFormatCurrency(assetAnalysis[i])
          THEN "throws"
          ELSE "completes"

\* Analytics without the early return for an empty allPositions
Analytics_NoEmptyBranch(positions) ==
  LET marketSentiment == MarketSentiment(positions)
      assetAnalysis == AssetAnalysis(positions)
  IN [marketSentiment |-> marketSentiment,
      assetAnalysis |-> assetAnalysis,
      patterns |-> Patterns(positions, marketSentiment.sentiment),
      tradingOpportunities |->
        [longSuggestions |-> LongSuggestions(assetAnalysis),
         shortSuggestions |-> ShortSuggestions(assetAnalysis),
         aiRecommendations |-> AiRecommendations(assetAnalysis)],
      riskMetrics |->
        RiskMetrics(positions, assetAnalysis, marketSentiment.volatility),
      performanceMetrics |-> PerformanceMetrics(positions)]

\* the analytics memo
Analytics(positions) ==
  IF Len(positions) = 0 THEN EmptyAnalytics
  ELSE LET marketSentiment == MarketSentiment(positions)
           assetAnalysis == AssetAnalysis(positions)
       IN [marketSentiment |-> marketSentiment,
           assetAnalysis |-> assetAnalysis,
           patterns |-> Patterns(positions, marketSentiment.sentiment),
           tradingOpportunities |->
             [longSuggestions |-> LongSuggestions(assetAnalysis),
              shortSuggestions |-> ShortSuggestions(assetAnalysis),
              aiRecommendations |-> AiRecommendations(assetAnalysis)],
           riskMetrics |->
             RiskMetrics(positions, assetAnalysis, marketSentiment.volatility),
           performanceMetrics |-> PerformanceMetrics(positions)]

\* ------------------------------------------------------------------------
\* Snapshots the API can serve
\* ------------------------------------------------------------------------

\* positions that vary the fields the wallet aggregators read: every pnl
\* with every address, and every status with every address
WalletFamily ==
  {Position(Absent, Absent, Absent, Absent, Absent, pnl, Some("closed"),
            address) :
     pnl \in {Absent, Some(-1000), Some(6000)},
     address \in {Some("W1"), Some("W2")}}
  \cup
  {Position(Absent, Absent, Absent, Absent, Absent, Some(6000), status,
            address) :
     status \in {Absent, Some("active"), Some("closed")},
     address \in {Some("W1"), Some("W2")}}

\* positions that vary the fields the asset and portfolio metrics read:
\* every pnl on every asset, and a high leverage on every asset
MarketFamily ==
  {Position(asset, Absent, Absent, Absent, Absent, pnl, Absent, Absent) :
     asset \in {Absent, Some("BTC"), Some("XYZ")},
     pnl \in {Absent, Some(-1000), Some(6000)}}
  \cup
  {Position(asset, Absent, Absent, Some(30), Absent, Some(6000), Absent,
            Absent) :
     asset \in {Absent, Some("BTC"), Some("XYZ")}}

\* positions that vary the fields the derived-price calculators read:
\* every combination of absent, zero and present inputs of a long, and
\* every direction with every sign of size and pnl
PriceFamily ==
  {Position(Some("BTC"), size, entry_price, leverage, Some(TRUE), pnl,
            Some("active"), Some("W1")) :
     size \in {Absent, Some(0), Some(1000), Some(-1000)},
     entry_price \in {Absent, Some(0), Some(100)},
     leverage \in {Absent, Some(0), Some(10)},
     pnl \in {Absent, Some(0), Some(50)}}
  \cup
  {Position(Some("BTC"), size, Some(100), Some(10), is_long, pnl,
            Some("active"), Some("W1")) :
     size \in {Some(1000), Some(-1000)},
     is_long \in {Absent, Some(TRUE), Some(FALSE)},
     pnl \in {Some(0), Some(50), Some(-50)}}

\* the position counts of the one-asset scenarios: the smallest count with
\* a win rate and a long share of a half, and the count of the volume signal
ScenarioSizes == {4, 10}

\* n positions of one asset: the first wins of them win 6000 and the others
\* lose, the first longs of them are long and the others short
AssetScenario(n, wins, longs, loss, size, leverage, entry_price, created) ==
  [i \in 1..n |->
     [Position(Some("XYZ"), size, entry_price, leverage, Some(i <= longs),
               IF i <= wins THEN Some(6000) ELSE loss, Absent, Absent)
        EXCEPT !.created_at = created]]

\* one-asset snapshots that vary what the recommendation signals read
AssetScenarios ==
  {AssetScenario(n, (n * winShare) \div 10, (n * longShare) \div 10, loss,
                 size, leverage, entry_price, created) :
     n \in ScenarioSizes,
     winShare \in {0, 5, 7},
     longShare \in {2, 5, 7, 8},
     loss \in {Some(-4000), Some(-12000)},
     size \in {Absent, Some(2000000)},
     leverage \in {Absent, Some(8), Some(30)},
     entry_price \in {Some(50), Some(200)},
     created \in {Absent, Some(3)}}

\* positions that vary what the pattern rules and the asset counts read:
\* leverages on both sides of 50 and 75, sizes on both sides of 1000000
\* and of its negative, each direction and none, main and other coins,
\* winners and a loser, and a position created three days ago
PatternFamily ==
  {Position(Some("XYZ"), Absent, Absent, Some(80), Some(TRUE), Some(6000),
            Absent, Absent),
   Position(Some("XYZ"), Absent, Absent, Some(90), Some(FALSE), Some(6000),
            Absent, Absent),
   Position(Some("BTC"), Absent, Absent, Some(60), Absent, Some(6000),
            Absent, Absent),
   Position(Some("BTC"), Some(2000000), Absent, Absent, Some(TRUE), Absent,
            Absent, Absent),
   Position(Some("BTC"), Some(-2000000), Absent, Absent, Some(TRUE), Absent,
            Absent, Absent),
   CreatedDaysAgo(Position(Some("XYZ"), Some(2000000), Some(50), Some(8),
                           Some(FALSE), Some(12000), Absent, Absent), 3),
   Position(Some("BTC"), Absent, Absent, Absent, Some(TRUE), Some(6000),
            Absent, Absent),
   Position(Some("BTC"), Absent, Absent, Some(10), Some(FALSE), Some(-1000),
            Absent, Absent)}

\* snapshots of three and four positions around one wallet: its active
\* positions with the PnL 5000, 3000 and -1000 in every order and
\* repetition, next to a closed position of another wallet
WalletScenarios ==
  LET family ==
        {Position(Absent, Absent, Absent, Absent, Absent, pnl, Some("active"),
                  Some("W1")) : pnl \in {Some(5000), Some(3000), Some(-1000)}}
        \cup {Position(Absent, Absent, Absent, Absent, Absent, Some(6000),
                       Some("closed"), Some("W2"))}
  IN [1..3 -> family] \cup [1..4 -> family]

\* the sequences over S of length max or less
SeqsUpTo(S, max) == UNION {[1..n -> S] : n \in 0..max}

\* the snapshots explored for a view: those that vary what the view reads
SnapshotsFor(view) ==
  IF view = "home" THEN SeqsUpTo(PriceFamily, MaxPricePositions)
  ELSE IF view = "wallets"
  THEN SeqsUpTo(WalletFamily, MaxPositions) \cup WalletScenarios
  ELSE IF view = "wallet-details"
  THEN SeqsUpTo(WalletFamily, MaxPositions)
         \cup SeqsUpTo(PriceFamily, MaxPricePositions)
         \cup WalletScenarios
  ELSE SeqsUpTo(MarketFamily, MaxPositions)
         \cup SeqsUpTo(PriceFamily, MaxPricePositions)
         \cup SeqsUpTo(PatternFamily, MaxPositions)
         \cup AssetScenarios

\* ------------------------------------------------------------------------
\* State
\* ------------------------------------------------------------------------

VARIABLES
  currentView,     \* App: "home", "wallets", "wallet-details" or "analytics"
  selectedWallet,  \* App: Absent or Some(address)
  loading,         \* the mounted component's loading flag
  allPositions     \* the mounted component's snapshot

\* one run of fetchAllPositions, request by request
VARIABLES
  error,        \* the mounted component's error: Absent (null) or Some(message)
  pc,           \* where the run of fetchAllPositions stands
  initialData,  \* the answer to the request of page 1: Absent before it
  requests,     \* fetchPromises: the state of the request of each later page
  arrivals      \* the later pages in the order their requests settled

fetchVars == <<error, pc, initialData, requests, arrivals>>

\* the controls of the paginated table of the mounted component
VARIABLES
  currentPage,   \* the page shown
  itemsPerPage,  \* the page size
  sortConfig,    \* [field, order]: field is Null before the first sort
  filters,       \* FilterConfig: the value of each filter
  activeTab      \* WalletDetails: "current" or "closed"

tableVars == <<currentPage, itemsPerPage, sortConfig, filters, activeTab>>

vars ==
  <<currentView, selectedWallet, loading, allPositions, fetchVars, tableVars>>

\* the value of a memo of a component that is not mounted
Unmounted == <<"unmounted">>

\* table rows of the positions table under the default filters and sort
PositionsTableRows(positions) ==
  [i \in 1..Len(positions) |-> PT_Row(positions[i])]

\* table rows of the wallet details under the default tab ("current")
WalletDetailsRows(positions, walletAddress) ==
  LET walletPositions == WalletPositionsOf(positions, walletAddress)
      filteredPositions ==
        FilterSeq(walletPositions,
                  {i \in 1..Len(walletPositions) :
                     walletPositions[i].status = Some("active")},
                  Len(walletPositions))
  IN [i \in 1..Len(filteredPositions) |-> WD_Row(filteredPositions[i])]

\* The memos (useMemo) of the mounted component are functions of its
\* allPositions and props: they are recomputed on every render.

\* derived columns of the table rows of the mounted table
rows ==
  IF currentView = "home" THEN PositionsTableRows(allPositions)
  ELSE IF currentView = "wallet-details"
  THEN WalletDetailsRows(allPositions, selectedWallet[1])
  ELSE Unmounted

\* WalletList.walletData
walletData ==
  IF currentView = "wallets" THEN WalletData(allPositions) ELSE Unmounted

\* WalletDetails.walletStats
walletStats ==
  IF currentView = "wallet-details"
  THEN WalletStats(WalletPositionsOf(allPositions, selectedWallet[1]))
  ELSE Unmounted

\* Analytics.analytics
analytics ==
  IF currentView = "analytics" THEN Analytics(allPositions) ELSE Unmounted

\* analytics.assetAnalysis
analyticsAssetAnalysis ==
  IF currentView # "analytics" THEN Unmounted
  ELSE IF Len(allPositions) = 0 THEN EmptyAnalytics.assetAnalysis
  ELSE AssetAnalysis(allPositions)

\* analytics.performanceMetrics
analyticsPerformanceMetrics ==
  IF currentView # "analytics" THEN Unmounted
  ELSE IF Len(allPositions) = 0 THEN EmptyAnalytics.performanceMetrics
  ELSE PerformanceMetrics(allPositions)

\* analytics.patterns
analyticsPatterns ==
  IF currentView # "analytics" THEN Unmounted
  ELSE IF Len(allPositions) = 0 THEN EmptyAnalytics.patterns
  ELSE Patterns(allPositions, Sentiment(allPositions))

\* analytics.tradingOpportunities.aiRecommendations
analyticsAiRecommendations ==
  IF currentView # "analytics" THEN Unmounted
  ELSE IF Len(allPositions) = 0
  THEN EmptyAnalytics.tradingOpportunities.aiRecommendations
  ELSE AiRecommendations(AssetAnalysis(allPositions))

\* analytics.tradingOpportunities.longSuggestions
analyticsLongSuggestions ==
  IF currentView # "analytics" THEN Unmounted
  ELSE IF Len(allPositions) = 0
  THEN EmptyAnalytics.tradingOpportunities.longSuggestions
  ELSE LongSuggestions(AssetAnalysis(allPositions))

\* analytics.tradingOpportunities.shortSuggestions
analyticsShortSuggestions ==
  IF currentView # "analytics" THEN Unmounted
  ELSE IF Len(allPositions) = 0
  THEN EmptyAnalytics.tradingOpportunities.shortSuggestions
  ELSE ShortSuggestions(AssetAnalysis(allPositions))

\* analytics.patterns of the second Analytics variant
patternsVariant2 ==
  IF currentView = "analytics" THEN PatternsVariant2(allPositions)
  ELSE Unmounted

\* the outcome of the analysis pass of the second Analytics variant
analysisPassVariant2 ==
  IF currentView = "analytics" THEN AnalysisPassVariant2(allPositions)
  ELSE Unmounted

\* a component is mounted: empty snapshot, loading, fetch started
Mount(view, wallet) ==
  /\ currentView' = view
  /\ selectedWallet' = wallet
  /\ loading' = TRUE
  /\ allPositions' = <<>>
  /\ UNCHANGED <<fetchVars, tableVars>>

\* the filters of the component before any change: the status and the
\* direction filter of the positions table, the rating and the position
\* status filter of the wallet list (the other filters work alike and stay
\* at their first value); the wallet details have none
InitialFilters(view) ==
  IF view = "home" THEN [status |-> "all", direction |-> "all"]
  ELSE IF view = "wallets" THEN [rating |-> "all", positionStatus |-> "all"]
  ELSE <<>>

\* the table controls of a component after useState
TableUntouched(view) ==
  /\ currentPage = 1
  /\ itemsPerPage = 10
  /\ sortConfig = [field |-> Null,
                   order |-> IF view = "wallet-details" THEN "desc" ELSE "asc"]
  /\ filters = InitialFilters(view)
  /\ activeTab = "current"

\* the run of fetchAllPositions taken as one step: its requests are not
\* followed
RunAsOneStep ==
  /\ error = Absent
  /\ pc = "one step"
  /\ initialData = Absent
  /\ requests = <<>>
  /\ arrivals = <<>>

Init ==
  /\ currentView = "home"
  /\ selectedWallet = Absent
  /\ loading = TRUE
  /\ allPositions = <<>>
  /\ RunAsOneStep
  /\ TableUntouched("home")

\* ------------------------------------------------------------------------
\* Actions
\* ------------------------------------------------------------------------

\* fetchAllPositions resolves with the whole snapshot
FetchAllPositions ==
  /\ loading
  /\ \E snapshot \in SnapshotsFor(currentView) :
       allPositions' = snapshot
  /\ loading' = FALSE
  /\ UNCHANGED <<currentView, selectedWallet, fetchVars, tableVars>>

\* Home: onNavigateToWallets
NavigateToWallets ==
  /\ currentView = "home"
  /\ Mount("wallets", selectedWallet)

\* Home: onNavigateToAnalytics
NavigateToAnalytics ==
  /\ currentView = "home"
  /\ Mount("analytics", selectedWallet)

\* WalletList: a click on the row of a wallet
HandleWalletSelect ==
  /\ currentView = "wallets"
  /\ \E i \in 1..Len(walletData) :
       Mount("wallet-details", Some(walletData[i].address))

\* handleBackToWallets without setSelectedWallet(null)
HandleBackToWallets_KeepWallet ==
  /\ currentView = "wallet-details"
  /\ Mount("wallets", selectedWallet)

\* WalletDetails: onBack
HandleBackToWallets ==
  /\ currentView = "wallet-details"
  /\ Mount("wallets", Absent)

\* WalletList and Analytics: onBack
HandleBackToHome ==
  /\ currentView \in {"wallets", "analytics"}
  /\ Mount("home", Absent)

Next ==
  \/ FetchAllPositions
  \/ NavigateToWallets
  \/ NavigateToAnalytics
  \/ HandleWalletSelect
  \/ HandleBackToWallets
  \/ HandleBackToHome

Spec == Init /\ [][Next]_vars

\* ------------------------------------------------------------------------
\* fetchAllPositions, request by request
\* ------------------------------------------------------------------------

\* the records of a page of the API that holds total_items records
ServerPage(page, total_items) ==
  LET first == (page - 1) * PageSize
      last == IF page * PageSize < total_items THEN page * PageSize
              ELSE total_items
  IN [k \in 1..(last - first) |-> [id |-> first + k]]

\* pagination.total_pages of the API for total_items records
TotalPages(total_items) == (total_items + PageSize - 1) \div PageSize

\* ApiResponse of page 1
InitialData(total_items) ==
  [data |-> ServerPage(1, total_items),
   pagination |-> [total_items |-> total_items,
                   total_pages |-> TotalPages(total_items)]]

\* what the promise of a later page resolves to: pageData.data, or [] from
\* its catch
PageResult(page, state, total_items) ==
  IF state = "ok" THEN ServerPage(page, total_items) ELSE <<>>

\* PromiseAll with the results in the order the requests settled
PromiseAll_ArrivalOrder(promises, settled, total_items) ==
  [i \in 1..Len(settled) |->
     PageResult(settled[i], promises[settled[i]], total_items)]

\* await Promise.all(fetchPromises): the results in the order of the
\* promises, whatever the order in which they settled
PromiseAll(promises, settled, total_items) ==
  [i \in 1..Cardinality(DOMAIN promises) |->
     PageResult(i + 1, promises[i + 1], total_items)]

\* allPositions = [...allPositions, ...pageData] for the first n pages
RECURSIVE Combine(_, _, _)
Combine(positions, additionalPages, n) ==
  IF n = 0 THEN positions
  ELSE Combine(positions, additionalPages, n - 1) \o additionalPages[n]

\* the component after its first render: loading, no error, no snapshot,
\* the effect that calls fetchAllPositions not yet run
FetchInit ==
  /\ currentView = "home"
  /\ selectedWallet = Absent
  /\ loading = TRUE
  /\ allPositions = <<>>
  /\ error = Absent
  /\ pc = "mounted"
  /\ initialData = Absent
  /\ requests = <<>>
  /\ arrivals = <<>>
  /\ TableUntouched("home")

\* FetchStart that leaves the error of the last run in place
FetchStart_KeepError ==
  /\ loading' = TRUE
  /\ pc' = "initial"
  /\ initialData' = Absent
  /\ requests' = <<>>
  /\ arrivals' = <<>>
  /\ UNCHANGED <<currentView, selectedWallet, allPositions, error, tableVars>>

\* fetchAllPositions up to its first await: setLoading(true),
\* setError(null), the request of page 1
FetchStart ==
  /\ loading' = TRUE
  /\ error' = Absent
  /\ pc' = "initial"
  /\ initialData' = Absent
  /\ requests' = <<>>
  /\ arrivals' = <<>>
  /\ UNCHANGED <<currentView, selectedWallet, allPositions, tableVars>>

\* useEffect(() => { fetchAllPositions(); }, [])
UseEffect ==
  /\ pc = "mounted"
  /\ FetchStart

\* the Retry button of the error view
Retry ==
  /\ pc = "idle"
  /\ error # Absent
  /\ FetchStart

\* catch and finally: setError(message), setAllPositions([]),
\* setLoading(false)
CatchAndFinally(message) ==
  /\ error' = Some(message)
  /\ allPositions' = <<>>
  /\ loading' = FALSE
  /\ pc' = "idle"

\* the request of page 1 is rejected, or answered with a status that is
\* not ok
InitialFails ==
  /\ pc = "initial"
  /\ \E message \in {"Network Error", "HTTP 500"} : CatchAndFinally(message)
  /\ UNCHANGED <<currentView, selectedWallet, initialData, requests, arrivals, tableVars>>

\* the request of page 1 is answered: with one page or none the snapshot
\* is stored, otherwise every later page is requested
InitialResolves ==
  /\ pc = "initial"
  /\ \E total_items \in 0..(MaxPages * PageSize) :
       LET answer == InitialData(total_items)
       IN /\ initialData' = Some(answer)
          /\ IF answer.pagination.total_pages > 1
             THEN /\ requests' = [page \in 2..answer.pagination.total_pages
                                    |-> "pending"]
                  /\ pc' = "pages"
                  /\ UNCHANGED <<loading, allPositions>>
             ELSE /\ requests' = <<>>
                  /\ pc' = "idle"
                  /\ allPositions' = answer.data
                  /\ loading' = FALSE
  /\ UNCHANGED <<currentView, selectedWallet, error, arrivals, tableVars>>

\* the request of a later page settles: answered with its records, or
\* failed and turned into [] by the catch of its promise
PageSettles ==
  /\ pc = "pages"
  /\ \E page \in DOMAIN requests :
       /\ requests[page] = "pending"
       /\ \E state \in {"ok", "failed"} :
            requests' = [requests EXCEPT ![page] = state]
       /\ arrivals' = Append(arrivals, page)
  /\ UNCHANGED <<currentView, selectedWallet, loading, allPositions, error, pc,
                 initialData, tableVars>>

\* Promise.all resolves: the pages are combined and stored
PagesCombined ==
  /\ pc = "pages"
  /\ \A page \in DOMAIN requests : requests[page] # "pending"
  /\ LET additionalPages ==
           PromiseAll(requests, arrivals,
                      initialData[1].pagination.total_items)
     IN allPositions' = Combine(initialData[1].data, additionalPages,
                                Len(additionalPages))
  /\ loading' = FALSE
  /\ pc' = "idle"
  /\ UNCHANGED <<currentView, selectedWallet, error, initialData, requests,
                 arrivals, tableVars>>

FetchNext ==
  \/ UseEffect
  \/ Retry
  \/ InitialFails
  \/ InitialResolves
  \/ PageSettles
  \/ PagesCombined

FetchSpec == FetchInit /\ [][FetchNext]_vars

\* the effect runs after the first render, every request settles, and the
\* continuations of the settled promises run
FetchFairness ==
  /\ WF_vars(UseEffect)
  /\ WF_vars(InitialFails \/ InitialResolves)
  /\ WF_vars(PageSettles)
  /\ WF_vars(PagesCombined)

FetchLiveSpec == FetchSpec /\ FetchFairness

\* ------------------------------------------------------------------------
\* The paginated tables: positions, wallet list, wallet details
\* ------------------------------------------------------------------------

\* the row counts of the loaded snapshots: none, less than a page, three
\* pages of five rows and, for the tables of positions, six pages
TableSizes(view) ==
  IF view = "wallets" THEN {0, 3, 12} ELSE {0, 3, 12, 27}

\* a snapshot of n positions for the table of the view: for the wallet
\* list every position is of another wallet, for the others all are of
\* one wallet; status, direction and pnl vary along the snapshot
TableSnapshot(view, n) ==
  [k \in 1..n |->
     Position(Some("BTC"), Some(100 * k), Some(100), Some(10),
              IF k % 4 = 0 THEN Absent ELSE Some(k % 2 = 0),
              Some(IF k % 3 = 0 THEN -1000 ELSE 6000),
              Some(IF k % 3 = 1 THEN "closed" ELSE "active"),
              IF view = "wallets" THEN Some("W" \o ToString(k))
              ELSE Some("W1"))]

\* the values offered by the select of a filter
FilterValues(key) ==
  IF key = "status" THEN {"all", "active", "closed"}
  ELSE IF key = "direction" THEN {"all", "long", "short"}
  ELSE IF key = "rating" THEN {"all", "A", "B", "C", "D", "F"}
  ELSE {"all", "closed-only", "active-only", "mixed"}

\* the sort headers of the table that are followed: two of its fields
SortFields(view) ==
  IF view = "wallets" THEN {"totalPnL", "winRate"} ELSE {"size", "pnl"}

\* the values of the page size select
ItemsPerPageOptions(view) ==
  IF view = "wallet-details" THEN {5, 10, 25, 50} ELSE {5, 10, 25, 50, 100}

\* PositionsTable.filteredAndSortedPositions.length
FilteredPositionsLength(positions, filterConfig) ==
  Cardinality(
    {i \in 1..Len(positions) :
       /\ filterConfig.status # "all" =>
            positions[i].status = Some(filterConfig.status)
       /\ filterConfig.direction # "all" =>
            positions[i].is_long = Some(filterConfig.direction = "long")})

\* WalletList.filteredAndSortedWallets.length
FilteredWalletsLength(wallets, filterConfig) ==
  Cardinality(
    {i \in 1..Len(wallets) :
       /\ filterConfig.rating # "all" =>
            wallets[i].rating = filterConfig.rating
       /\ filterConfig.positionStatus = "closed-only" =>
            wallets[i].closedTrades > 0
       /\ filterConfig.positionStatus = "active-only" =>
            wallets[i].activePositions > 0
       /\ filterConfig.positionStatus = "mixed" =>
            wallets[i].activePositions > 0 /\ wallets[i].closedTrades > 0})

\* WalletDetails.sortedPositions.length: the positions of the tab
TabPositionsLength(positions, tab) ==
  Cardinality(
    {i \in 1..Len(positions) :
       IF tab = "current" THEN positions[i].status = Some("active")
       ELSE positions[i].status # Some("active")})

\* the number of rows of the mounted table after its filters
filteredLength ==
  IF currentView = "home" THEN FilteredPositionsLength(allPositions, filters)
  ELSE IF currentView = "wallets"
  THEN FilteredWalletsLength(walletData, filters)
  ELSE TabPositionsLength(WalletPositionsOf(allPositions, selectedWallet[1]),
                          activeTab)

\* Math.ceil(length / itemsPerPage)
totalPages == (filteredLength + itemsPerPage - 1) \div itemsPerPage

\* generatePaginationItems: a page number is Some(number), "ellipsis" is
\* Absent
GeneratePaginationItems(page, pages) ==
  LET maxVisiblePages == 5
      Range(a, b) == [i \in 1..(b - a + 1) |-> Some(a + i - 1)]
  IN IF pages <= maxVisiblePages THEN Range(1, pages)
     ELSE IF page <= 3 THEN Range(1, 4) \o <<Absent, Some(pages)>>
     ELSE IF page >= pages - 2
     THEN <<Some(1), Absent>> \o Range(pages - 3, pages)
     ELSE <<Some(1), Absent>> \o Range(page - 1, page + 1)
          \o <<Absent, Some(pages)>>

\* a component with its snapshot loaded and its controls untouched
TableInit ==
  /\ \E view \in {"home", "wallets", "wallet-details"} :
       /\ currentView = view
       /\ selectedWallet
            = (IF view = "wallet-details" THEN Some("W1") ELSE Absent)
       /\ \E n \in TableSizes(view) : allPositions = TableSnapshot(view, n)
       /\ TableUntouched(view)
  /\ loading = FALSE
  /\ error = Absent
  /\ pc = "idle"
  /\ initialData = Absent
  /\ requests = <<>>
  /\ arrivals = <<>>

\* the controls of the table leave the component and its snapshot alone
TableFrame ==
  UNCHANGED <<currentView, selectedWallet, loading, allPositions, fetchVars>>

\* the new sortConfig of handleSort
NextSortConfig(prev, field) ==
  [field |-> Some(field),
   order |-> IF prev.field = Some(field) /\ prev.order = "asc" THEN "desc"
             ELSE "asc"]

\* handleSort: a click on a sort header; in the wallet details the header
\* of the initial value sorts by size as the header of the size does
HandleSort ==
  /\ \E field \in SortFields(currentView) :
       sortConfig' = NextSortConfig(sortConfig, field)
  /\ currentPage' = 1
  /\ UNCHANGED <<itemsPerPage, filters, activeTab>>
  /\ TableFrame

\* HandleFilterChange that stays on the page shown
HandleFilterChange_KeepPage ==
  /\ currentView \in {"home", "wallets"}
  /\ \E key \in DOMAIN filters :
       \E value \in FilterValues(key) \ {filters[key]} :
         filters' = [filters EXCEPT ![key] = value]
  /\ UNCHANGED <<currentPage, itemsPerPage, sortConfig, activeTab>>
  /\ TableFrame

\* handleFilterChange: another value is chosen in the select of a filter
HandleFilterChange ==
  /\ currentView \in {"home", "wallets"}
  /\ \E key \in DOMAIN filters :
       \E value \in FilterValues(key) \ {filters[key]} :
         filters' = [filters EXCEPT ![key] = value]
  /\ currentPage' = 1
  /\ UNCHANGED <<itemsPerPage, sortConfig, activeTab>>
  /\ TableFrame

\* the Clear Filters button, shown while a filter is set
ClearFilters ==
  /\ currentView \in {"home", "wallets"}
  /\ filters # InitialFilters(currentView)
  /\ filters' = InitialFilters(currentView)
  /\ currentPage' = 1
  /\ UNCHANGED <<itemsPerPage, sortConfig, activeTab>>
  /\ TableFrame

\* handleItemsPerPageChange: another page size is chosen
HandleItemsPerPageChange ==
  /\ \E value \in ItemsPerPageOptions(currentView) \ {itemsPerPage} :
       itemsPerPage' = value
  /\ currentPage' = 1
  /\ UNCHANGED <<sortConfig, filters, activeTab>>
  /\ TableFrame

\* WalletDetails: a click on a tab button
SelectTab ==
  /\ currentView = "wallet-details"
  /\ \E tab \in {"current", "closed"} : activeTab' = tab
  /\ currentPage' = 1
  /\ UNCHANGED <<itemsPerPage, sortConfig, filters>>
  /\ TableFrame

\* PaginationPrevious, rendered with more than one page
PaginationPrevious ==
  /\ totalPages > 1
  /\ currentPage > 1
  /\ currentPage' = currentPage - 1
  /\ UNCHANGED <<itemsPerPage, sortConfig, filters, activeTab>>
  /\ TableFrame

\* PaginationNext, rendered with more than one page
PaginationNext ==
  /\ totalPages > 1
  /\ currentPage < totalPages
  /\ currentPage' = currentPage + 1
  /\ UNCHANGED <<itemsPerPage, sortConfig, filters, activeTab>>
  /\ TableFrame

\* PaginationLink: a click on one of the page numbers
PaginationLink ==
  /\ totalPages > 1
  /\ LET items == GeneratePaginationItems(currentPage, totalPages)
     IN \E i \in 1..Len(items) :
          /\ items[i] # Absent
          /\ currentPage' = items[i][1]
  /\ UNCHANGED <<itemsPerPage, sortConfig, filters, activeTab>>
  /\ TableFrame

TableNext ==
  \/ HandleSort
  \/ HandleFilterChange
  \/ ClearFilters
  \/ HandleItemsPerPageChange
  \/ SelectTab
  \/ PaginationPrevious
  \/ PaginationNext
  \/ PaginationLink

TableSpec == TableInit /\ [][TableNext]_vars

\* ------------------------------------------------------------------------
\* Properties
\* ------------------------------------------------------------------------

\* C1: the letter grade of every wallet is the first match of the ordered
\* rules A (winRate >= 80, totalPnL > 10000), B (>= 70, > 5000), C (>= 60,
\* > 0), D (>= 40), else F, and the wallet list and the wallet details give
\* the same grade for the same positions of a wallet.
RatingIsFirstMatch ==
  LET Grade(winRate, totalPnL) ==
        CASE NumGe(winRate, R(80)) /\ totalPnL > 10000 -> "A"
          [] ~(NumGe(winRate, R(80)) /\ totalPnL > 10000)
             /\ NumGe(winRate, R(70)) /\ totalPnL > 5000 -> "B"
          [] ~(NumGe(winRate, R(70)) /\ totalPnL > 5000)
             /\ NumGe(winRate, R(60)) /\ totalPnL > 0 -> "C"
          [] ~(NumGe(winRate, R(60)) /\ totalPnL > 0)
             /\ NumGe(winRate, R(40)) -> "D"
          [] ~NumGe(winRate, R(40)) -> "F"
      wallets == walletData
      stats == walletStats
      listed == WalletData(allPositions)
  IN /\ currentView = "wallets" =>
          \A i \in 1..Len(wallets) :
             /\ wallets[i].rating
                  = Grade(wallets[i].winRate, wallets[i].totalPnL)
             /\ wallets[i].rating
                  = WalletStats(WalletPositionsOf(allPositions,
                                                  wallets[i].address)).rating
     /\ currentView = "wallet-details" =>
          /\ stats.rating
               = Grade(stats.winRate, stats.totalPnL)
          /\ \A i \in 1..Len(listed) :
                listed[i].address = selectedWallet[1]
                  => listed[i].rating = stats.rating

\* C1 witness: the wallet details grade a wallet of three trades C
RatingWitness ==
  /\ currentView = "wallet-details"
  /\ ~loading
  /\ walletStats.totalTrades = 3
  /\ walletStats.rating = "C"

\* C2: the grade is monotonic: a wallet with a win rate and a total PnL at
\* least those of another wallet never has a worse grade, F < D < C < B < A.
RatingIsMonotonic ==
  LET Rank(rating) == CASE rating = "F" -> 0 [] rating = "D" -> 1
                        [] rating = "C" -> 2 [] rating = "B" -> 3
                        [] rating = "A" -> 4
      wallets == walletData
  IN currentView = "wallets" =>
       \A i, j \in 1..Len(wallets) :
          (NumLe(wallets[i].winRate, wallets[j].winRate)
             /\ wallets[i].totalPnL <= wallets[j].totalPnL)
            => Rank(wallets[i].rating) <= Rank(wallets[j].rating)

\* C2 witness: two wallets of equal total PnL, the one with the higher win
\* rate on the other side of a grade boundary
MonotonicWitness ==
  /\ currentView = "wallets"
  /\ \E i, j \in 1..Len(walletData) :
       /\ walletData[i].totalPnL = walletData[j].totalPnL
       /\ NumLt(walletData[i].winRate, walletData[j].winRate)
       /\ walletData[i].rating # walletData[j].rating

\* C3: every position of a wallet is counted as active or as closed, so
\* active + closed = total trades, and the wallet list and the wallet
\* details report the same closed count for the same positions.
ActivePlusClosedIsTotal ==
  /\ currentView = "wallets" =>
       \A i \in 1..Len(walletData) :
          /\ walletData[i].activePositions + walletData[i].closedTrades
               = walletData[i].totalTrades
          /\ walletData[i].closedTrades
               = WalletStats(WalletPositionsOf(allPositions,
                                               walletData[i].address))
                   .closedPositions
  /\ currentView = "wallet-details" =>
       walletStats.activePositions + walletStats.closedPositions
         = walletStats.totalTrades

InitialValueIsAbsoluteMargin ==
  currentView \in {"home", "wallet-details"} =>
    \A i \in 1..Len(rows) :
       LET p == rows[i].position
           margin == NumDiv(R(IAbs(p.size[1]) * p.entry_price[1]),
                            R(p.leverage[1]))
       IN /\ rows[i].initialValue # Null =>
               /\ rows[i].initialValue = margin
               /\ NumGt(rows[i].initialValue, R(0))
          /\ rows[i].pnlPercentage # Null =>
               /\ rows[i].pnlPercentage
                    = NumMul(NumDiv(R(p.pnl[1]), margin), R(100))
               /\ ISign(rows[i].pnlPercentage[1]) = ISign(p.pnl[1])

RiskScoreWithinBounds ==
  (currentView = "analytics" /\ Len(allPositions) > 0) =>
    LET score == analytics.riskMetrics.riskScore
        room == NumSub(R(100), score.a)
    IN /\ \/ NumGe(score.a, R(0))
          \/ IsFinite(score.a) /\ NumGe(score.b, NumMul(score.a, score.a))
       /\ NumGe(room, R(0))
       /\ NumLe(score.b, NumMul(room, room))

\* C8: the max drawdown of every asset is a finite number, and it is 0 for
\* an asset whose cumulative PnL never rises above 0.
AssetDrawdownGuardsZeroPeak ==
  (currentView = "analytics" /\ Len(allPositions) > 0) =>
    \A k \in 1..Len(analytics.assetAnalysis) :
       LET a == analytics.assetAnalysis[k]
       IN /\ IsFinite(a.maxDrawdown)
          /\ (\A n \in 1..Len(a.positions) : SumPnl(a.positions, n) <= 0)
               => a.maxDrawdown = R(0)

\* C9: when no PnL of the sequence is negative (the cumulative PnL never
\* decreases) the max drawdown is 0, for the portfolio over all positions and
\* for every asset over its own positions.
MonotoneSeriesHasNoDrawdown ==
  LET assets == analyticsAssetAnalysis
      performance == analyticsPerformanceMetrics
  IN (currentView = "analytics" /\ Len(allPositions) > 0) =>
       /\ (\A i \in 1..Len(allPositions) : OrZero(allPositions[i].pnl) >= 0)
            => performance.maxDrawdown = R(0)
       /\ \A k \in 1..Len(assets) :
             LET a == assets[k]
             IN (\A i \in 1..Len(a.positions) : OrZero(a.positions[i].pnl) >= 0)
                  => a.maxDrawdown = R(0)

\* C9 witness: an asset with a profit followed by a position without pnl
MonotoneSeriesWitness ==
  /\ currentView = "analytics"
  /\ Len(allPositions) = 2
  /\ allPositions[1].asset = Some("BTC")
  /\ allPositions[2].asset = Some("BTC")
  /\ allPositions[1].pnl = Some(6000)
  /\ allPositions[2].pnl = Absent
  /\ analytics.assetAnalysis[1].maxDrawdown = R(0)
  /\ analytics.performanceMetrics.maxDrawdown = R(0)

\* C10: for an empty position sequence the analytics memo returns zero
\* counts and ratios, the sentiment "neutral" and empty lists, and the wallet
\* aggregator returns an empty wallet list.
EmptySnapshotGivesEmptyState ==
  /\ (currentView = "analytics" /\ allPositions = <<>>) =>
       /\ analytics.marketSentiment.sentiment = "neutral"
       /\ analytics.marketSentiment.bullish = R(0)
       /\ analytics.marketSentiment.bearish = R(0)
       /\ analytics.marketSentiment.confidence = R(0)
       /\ analytics.marketSentiment.volatility = RootNum(R(0), R(0))
       /\ analytics.assetAnalysis = <<>>
       /\ analytics.riskMetrics.highRisk = 0
       /\ analytics.riskMetrics.mediumRisk = 0
       /\ analytics.riskMetrics.lowRisk = 0
       /\ analytics.riskMetrics.riskScore = RootNum(R(0), R(0))
       /\ analytics.riskMetrics.diversification = RootNum(R(0), R(0))
       /\ analytics.performanceMetrics.totalPnL = 0
       /\ analytics.performanceMetrics.winRate = R(0)
       /\ analytics.performanceMetrics.avgPnL = R(0)
       /\ analytics.performanceMetrics.totalVolume = 0
       /\ analytics.performanceMetrics.activePositions = 0
       /\ analytics.performanceMetrics.closedPositions = 0
       /\ analytics.performanceMetrics.sharpeRatio = SignedRoot(0, R(0))
       /\ analytics.performanceMetrics.maxDrawdown = R(0)
       /\ analytics.performanceMetrics.profitFactor = R(0)
       /\ analytics.patterns.unusual = <<>>
       /\ analytics.patterns.usual = <<>>
       /\ analytics.patterns.correlations = <<>>
       /\ analytics.patterns.seasonality = <<>>
       /\ analytics.tradingOpportunities.longSuggestions = <<>>
       /\ analytics.tradingOpportunities.shortSuggestions = <<>>
       /\ analytics.tradingOpportunities.arbitrage = <<>>
       /\ analytics.tradingOpportunities.momentum = <<>>
       /\ analytics.tradingOpportunities.aiRecommendations = <<>>
       /\ analytics.professionalTraderAnalysis = <<>>
       /\ analytics.walletAnalysis.uniqueWallets = 0
       /\ analytics.walletAnalysis.topPerformers = <<>>
       /\ analytics.marketConditions.marketPhase = "neutral"
  /\ (currentView = "wallets" /\ allPositions = <<>>) => walletData = <<>>

\* C10 witness: the analytics fetch has returned an empty snapshot
EmptySnapshotWitness ==
  /\ currentView = "analytics"
  /\ ~loading
  /\ allPositions = <<>>
  /\ analytics.marketSentiment.sentiment = "neutral"

\* C11: for every non-empty snapshot the portfolio ratios (win rate, average
\* PnL, Sharpe ratio, profit factor, volatility) are finite numbers, and
\* they are all 0 when every position's PnL is 0 or absent.
PortfolioRatiosAreGuarded ==
  LET memo == analytics
  IN (currentView = "analytics" /\ Len(allPositions) > 0) =>
       /\ IsFinite(memo.performanceMetrics.winRate)
       /\ IsFinite(memo.performanceMetrics.avgPnL)
       /\ IsFinite(memo.performanceMetrics.sharpeRatio.b)
       /\ IsFinite(memo.performanceMetrics.profitFactor)
       /\ IsFinite(memo.marketSentiment.volatility.b)
       /\ (\A i \in 1..Len(allPositions) : OrZero(allPositions[i].pnl) = 0)
            => /\ memo.performanceMetrics.winRate = R(0)
               /\ memo.performanceMetrics.avgPnL = R(0)
               /\ memo.performanceMetrics.sharpeRatio = SignedRoot(0, R(0))
               /\ memo.performanceMetrics.profitFactor = R(0)
               /\ memo.marketSentiment.volatility = RootNum(R(0), R(0))

\* C12: the recommendation of an asset is LONG exactly when bullishScore >
\* bearishScore + 0.3, with confidence round(min((bullishScore -
\* bearishScore) / 2.5 * 100, 95)), SHORT exactly when bearishScore >
\* bullishScore + 0.3 with the symmetric confidence, and HOLD with
\* confidence 40 otherwise, the scores being the sums of the strengths of
\* the fired signals; the confidence is an integer in 0..95.  The scores
\* are taken in tenths, so (score difference) / 2.5 * 100 is 4 times the
\* difference in tenths.
RecommendationFollowsScores ==
  LET memo == analytics
      Tenths(signals, type) ==
        SumInts([i \in 1..Len(signals) |->
                   IF signals[i].type = type THEN signals[i].strength ELSE 0],
                Len(signals))
      Min(a, b) == IF a < b THEN a ELSE b
  IN (currentView = "analytics" /\ Len(allPositions) > 0) =>
       \A k \in 1..Len(memo.tradingOpportunities.aiRecommendations) :
          LET rec == memo.tradingOpportunities.aiRecommendations[k]
              asset == CHOOSE a \in {memo.assetAnalysis[j] :
                                       j \in 1..Len(memo.assetAnalysis)} :
                         a.asset = rec.asset
              signals == RecommendationSignals(asset, SmartMoney(asset))
              bullish == Tenths(signals, "bullish")
              bearish == Tenths(signals, "bearish")
          IN /\ rec.confidence \in 0..95
             /\ rec.recommendation = "LONG" <=> bullish > bearish + 3
             /\ rec.recommendation = "SHORT" <=> bearish > bullish + 3
             /\ rec.recommendation = "LONG"
                  => rec.confidence = Min(4 * (bullish - bearish), 95)
             /\ rec.recommendation = "SHORT"
                  => rec.confidence = Min(4 * (bearish - bullish), 95)
             /\ rec.recommendation = "HOLD" => rec.confidence = 40

\* C13: the recommendation list holds exactly one recommendation for every
\* asset that has at least one position, also for an asset with fewer than
\* 3 positions left after the positions of extreme PnL are excluded.
OneRecommendationPerAsset ==
  LET memo == analytics
  IN (currentView = "analytics" /\ Len(allPositions) > 0) =>
       /\ \A j \in 1..Len(memo.assetAnalysis) :
             memo.assetAnalysis[j].totalPositions >= 1 =>
               Cardinality(
                 {k \in 1..Len(memo.tradingOpportunities.aiRecommendations) :
                    memo.tradingOpportunities.aiRecommendations[k].asset
                      = memo.assetAnalysis[j].asset}) = 1
       /\ Len(memo.tradingOpportunities.aiRecommendations)
            = Len(memo.assetAnalysis)

\* C14: an asset with 10 positions, none extreme, win rate 70%, average
\* leverage 8, average smart-money PnL 3000 and long share 80% is
\* recommended LONG with a confidence of at least 80 that is the value of
\* the weighted sum of the fired signals: win rate 0.8, PnL 0.9, direction
\* 0.7, conservative leverage 0.3, position count 0.4, plus 0.6 for a volume
\* above 5,000,000 and 0.6 for an average entry price below 100.
ScenarioIsLongWithFormulaConfidence ==
  LET assets == analyticsAssetAnalysis
      recommendations == analyticsAiRecommendations
      Min(a, b) == IF a < b THEN a ELSE b
  IN (currentView = "analytics" /\ Len(allPositions) > 0) =>
       \A j \in 1..Len(assets) :
          LET asset == assets[j]
              smart == SmartMoney(asset)
              tenths ==
                8 + 9 + 7 + 3 + 4
                  + (IF SumAbsSize(asset.positions, 10) > 5000000
                     THEN 6 ELSE 0)
                  + (IF NumLt(asset.avgEntryPrice, R(100)) THEN 6 ELSE 0)
              recs ==
                {k \in 1..Len(recommendations) :
                   recommendations[k].asset
                     = asset.asset}
          IN (/\ Len(asset.positions) = 10
              /\ Len(smart.positions) = 10
              /\ smart.winRate = R(70)
              /\ asset.avgLeverage = R(8)
              /\ smart.avgSmartPnL = R(3000)
              /\ smart.longPercentage = R(80))
               => /\ Cardinality(recs) = 1
                  /\ \A k \in recs :
                        LET rec == recommendations[k]
                        IN /\ rec.recommendation = "LONG"
                           /\ rec.confidence >= 80
                           /\ rec.confidence = Min(4 * tenths, 95)

\* C14 witness: the scenario asset without the volume and low-entry signals
ScenarioWitness ==
  /\ currentView = "analytics"
  /\ Len(allPositions) = 10
  /\ LET asset == analytics.assetAnalysis[1]
         smart == SmartMoney(asset)
     IN /\ smart.winRate = R(70)
        /\ asset.avgLeverage = R(8)
        /\ smart.avgSmartPnL = R(3000)
        /\ smart.longPercentage = R(80)
        /\ SumAbsSize(asset.positions, 10) = 0
        /\ asset.avgEntryPrice = R(200)
        /\ analytics.tradingOpportunities.aiRecommendations[1].recommendation
             = "LONG"
        /\ analytics.tradingOpportunities.aiRecommendations[1].confidence = 95

\* the sequence in the opposite order
ReverseSeq(s) == [i \in 1..Len(s) |-> s[Len(s) + 1 - i]]

\* C15: every unusual-pattern rule that at least one position matches emits
\* exactly one pattern whose count is the number of matching positions, and
\* a rule that no position matches emits none, so no two unusual patterns
\* share a type and none has the count 0; the patterns appear in the fixed
\* order of the rules, whatever the order of the positions.
UnusualRulesEmitOncePerMatch ==
  LET patterns == analyticsPatterns
  IN (currentView = "analytics" /\ Len(allPositions) > 0) =>
       LET unusual == patterns.unusual
           rules == UnusualRules(allPositions, Sentiment(allPositions))
           RuleOf(k) ==
             CHOOSE r \in 1..Len(rules) : rules[r][1] = unusual[k].type
           reversed == ReverseSeq(allPositions)
       IN /\ \A r \in 1..Len(rules) :
                LET emitted ==
                      {k \in 1..Len(unusual) : unusual[k].type = rules[r][1]}
                IN IF Cardinality(rules[r][2]) > 0
                   THEN /\ Cardinality(emitted) = 1
                        /\ \A k \in emitted :
                              unusual[k].count = Cardinality(rules[r][2])
                   ELSE emitted = {}
          /\ \A k \in 1..Len(unusual) :
                /\ unusual[k].count > 0
                /\ \E r \in 1..Len(rules) : rules[r][1] = unusual[k].type
          /\ \A k, l \in 1..Len(unusual) :
                /\ k # l => unusual[k].type # unusual[l].type
                /\ k < l => RuleOf(k) < RuleOf(l)
          /\ UnusualPatterns(reversed, Sentiment(reversed))
               = unusual

\* C15 witness: positions in an order that differs from its reverse match
\* several rules, one of them twice, and leave other rules without a match
UnusualRulesWitness ==
  /\ currentView = "analytics"
  /\ Len(allPositions) = 3
  /\ allPositions # ReverseSeq(allPositions)
  /\ LET unusual == analytics.patterns.unusual
     IN /\ Len(unusual) >= 3
        /\ Len(unusual) < 9
        /\ \E k \in 1..Len(unusual) : unusual[k].count = 2
        /\ \E k \in 1..Len(unusual) : unusual[k].count = 1

\* the leverage rules as the list unusual shows them for the positions:
\* one ultra-high pattern counting the leverages above 75 when there is
\* one, and with it an extreme pattern of a count at least as large; the
\* leverages 80 and 90 alone give both patterns the count 2
LeverageRulesShownIn(unusual, positions) ==
  LET ultra ==
        {k \in 1..Len(unusual) :
           unusual[k].type = "Ultra High Leverage Trading (>75x)"}
      extreme ==
        {k \in 1..Len(unusual) : unusual[k].type = "Extreme Leverage Trading"}
      above75 == Cardinality(LeverageAbove(positions, 75))
  IN /\ above75 > 0 =>
          /\ Cardinality(ultra) = 1
          /\ \A k \in ultra : unusual[k].count = above75
     /\ above75 = 0 => ultra = {}
     /\ ultra # {} =>
          /\ Cardinality(extreme) = 1
          /\ \A k \in ultra, l \in extreme :
                unusual[l].count >= unusual[k].count
     /\ (/\ Len(positions) = 2
         /\ {OrZero(positions[i].leverage) : i \in 1..2} = {80, 90}) =>
          /\ \E k \in ultra : unusual[k].count = 2
          /\ \E l \in extreme : unusual[l].count = 2

\* C16: the leverage > 75 rule and the leverage > 50 rule fire
\* independently on the same positions, in both Analytics variants:
\* leverages 80 and 90 yield exactly one ultra-high-leverage pattern with
\* count 2 and exactly one extreme-leverage pattern with count 2, and
\* whenever the ultra-high pattern is emitted the extreme pattern is emitted
\* with a count at least as large.
LeverageRulesFireInBothVariants ==
  LET patterns == analyticsPatterns
      second == patternsVariant2
  IN (currentView = "analytics" /\ Len(allPositions) > 0) =>
       /\ LeverageRulesShownIn(patterns.unusual, allPositions)
       /\ LeverageRulesShownIn(second.unusual, allPositions)

\* the types of the patterns of a list, in its order
TypesOf(patterns) == [k \in 1..Len(patterns) |-> patterns[k].type]

\* C17: the usual-pattern list holds exactly the two patterns "Moderate
\* Leverage Usage" and "Trend Following", in that order, for every snapshot,
\* also when their counts are 0 and also for the empty snapshot.
UsualPatternsAlwaysBoth ==
  LET patterns == analyticsPatterns
  IN (currentView = "analytics" /\ ~loading) =>
       TypesOf(patterns.usual)
         = <<"Moderate Leverage Usage", "Trend Following">>

\* C17 as the code has it: for every snapshot with a position the usual
\* list holds exactly "Moderate Leverage Usage" and "Trend Following" in
\* that order, each with the number of its matching positions, also when
\* that number is 0; for the empty snapshot the usual list is empty.
UsualPatternsBothUnlessEmpty ==
  LET patterns == analyticsPatterns
  IN (currentView = "analytics" /\ ~loading) =>
       IF Len(allPositions) = 0 THEN patterns.usual = <<>>
       ELSE /\ TypesOf(patterns.usual)
                 = <<"Moderate Leverage Usage", "Trend Following">>
            /\ patterns.usual[1].count
                 = Cardinality({i \in 1..Len(allPositions) :
                                  /\ OrZero(allPositions[i].leverage) >= 5
                                  /\ OrZero(allPositions[i].leverage) <= 20})
            /\ patterns.usual[2].count
                 = Cardinality(
                     FollowTrend(allPositions,
                                 Sentiment(allPositions)))

\* C17 witness: a snapshot with positions where both usual patterns are
\* listed with the count 0
UsualPatternsWitness ==
  /\ currentView = "analytics"
  /\ ~loading
  /\ Len(allPositions) = 2
  /\ Len(analytics.patterns.usual) = 2
  /\ analytics.patterns.usual[1].count = 0
  /\ analytics.patterns.usual[2].count = 0

\* C18: the whale-activity pattern counts every position whose absolute
\* size exceeds 1,000,000, a size below -1,000,000 like one above
\* +1,000,000.
WhaleCountsAbsoluteSize ==
  LET patterns == analyticsPatterns
  IN (currentView = "analytics" /\ Len(allPositions) > 0) =>
       LET unusual == patterns.unusual
           whales ==
             {i \in 1..Len(allPositions) :
                IAbs(OrZero(allPositions[i].size)) > 1000000}
           emitted ==
             {k \in 1..Len(unusual) : unusual[k].type = "Whale Activity"}
       IN IF whales = {} THEN emitted = {}
          ELSE /\ Cardinality(emitted) = 1
               /\ \A k \in emitted : unusual[k].count = Cardinality(whales)

\* the count of the pattern of the type in the list, 0 when it has none
CountOfType(patterns, type) ==
  IF \E k \in 1..Len(patterns) : patterns[k].type = type
  THEN (CHOOSE p \in {patterns[k] : k \in 1..Len(patterns)} :
          p.type = type).count
  ELSE 0

\* C19: the contrarian pattern counts exactly the positions whose direction
\* is opposite to the overall sentiment and whose PnL exceeds 1000, and the
\* trend-following pattern counts exactly the positions whose direction
\* matches it; under a neutral sentiment both counts are 0, and a position
\* whose is_long is absent is counted in neither.
DirectionPatternsCountKnownDirections ==
  LET patterns == analyticsPatterns
  IN (currentView = "analytics" /\ Len(allPositions) > 0) =>
       LET sentiment == Sentiment(allPositions)
           idx == 1..Len(allPositions)
           with == IF sentiment = "bullish" THEN Some(TRUE)
                   ELSE IF sentiment = "bearish" THEN Some(FALSE)
                   ELSE Absent
           against == IF sentiment = "bullish" THEN Some(FALSE)
                      ELSE IF sentiment = "bearish" THEN Some(TRUE)
                      ELSE Absent
           opposite ==
             {i \in idx :
                /\ sentiment # "neutral"
                /\ allPositions[i].is_long = against
                /\ OrZero(allPositions[i].pnl) > 1000}
           matching ==
             {i \in idx :
                sentiment # "neutral" /\ allPositions[i].is_long = with}
       IN /\ CountOfType(patterns.unusual, "Successful Contrarian Plays")
               = Cardinality(opposite)
          /\ CountOfType(patterns.usual, "Trend Following")
               = Cardinality(matching)

\* C20: for every asset summary the sentiment is "bullish" exactly when
\* longCount > shortCount and "bearish" otherwise, a tie giving "bearish";
\* longCount + shortCount is the number of positions of the asset, a
\* position with absent is_long being counted as short.
AssetSentimentFollowsCounts ==
  LET assets == analyticsAssetAnalysis
  IN (currentView = "analytics" /\ Len(allPositions) > 0) =>
       \A j \in 1..Len(assets) :
          LET asset == assets[j]
              ofAsset ==
                {i \in 1..Len(allPositions) :
                   allPositions[i].asset = Some(asset.asset)}
              longs ==
                {i \in ofAsset : allPositions[i].is_long = Some(TRUE)}
          IN /\ asset.sentiment \in {"bullish", "bearish"}
             /\ asset.sentiment = "bullish"
                  <=> asset.longCount > asset.shortCount
             /\ asset.longCount = Cardinality(longs)
             /\ asset.shortCount = Cardinality(ofAsset \ longs)
             /\ asset.longCount + asset.shortCount = Cardinality(ofAsset)
             /\ asset.totalPositions = Cardinality(ofAsset)

\* C20 witness: an asset whose long count ties its short count thanks to a
\* position without is_long, and is bearish
AssetSentimentWitness ==
  /\ currentView = "analytics"
  /\ Len(allPositions) = 2
  /\ \E i \in 1..2 : allPositions[i].is_long = Absent
  /\ \E j \in 1..Len(analytics.assetAnalysis) :
        /\ analytics.assetAnalysis[j].longCount = 1
        /\ analytics.assetAnalysis[j].shortCount = 1
        /\ analytics.assetAnalysis[j].sentiment = "bearish"

\* ten times the composite score of a suggestion: confidence tier (high 3,
\* medium 2, low 1) plus 0.1 times its professionalCount, 0 without one
TenfoldCompositeScore(suggestion) ==
  10 * (CASE suggestion.confidence = "high" -> 3
          [] suggestion.confidence = "medium" -> 2
          [] suggestion.confidence = "low" -> 1)
    + (IF suggestion.professionalCount = Absent THEN 0
       ELSE suggestion.professionalCount[1])

\* the composite scores of the list never increase along it
OrderedByCompositeScore(suggestions) ==
  \A k, l \in 1..Len(suggestions) :
     k < l => TenfoldCompositeScore(suggestions[k])
                >= TenfoldCompositeScore(suggestions[l])

\* C21: the long-suggestion list and the short-suggestion list are each
\* ordered by non-increasing composite score, the score being the confidence
\* tier (high = 3, medium = 2, low = 1) plus 0.1 times professionalCount,
\* taken as 0 for a suggestion that carries none.
SuggestionsOrderedByCompositeScore ==
  (currentView = "analytics" /\ Len(allPositions) > 0) =>
    LET assetAnalysis == analyticsAssetAnalysis
    IN /\ OrderedByCompositeScore(LongSuggestions(assetAnalysis))
       /\ OrderedByCompositeScore(ShortSuggestions(assetAnalysis))

\* C21 witness: a smart-money suggestion of medium confidence was pushed
\* before a technical suggestion of high confidence without a
\* professionalCount, and the list shows them the other way round
SuggestionsWitness ==
  /\ currentView = "analytics"
  /\ Len(allPositions) = 10
  /\ Len(analyticsLongSuggestions) >= 2
  /\ analyticsLongSuggestions[1].strategy = "Technical Analysis"
  /\ analyticsLongSuggestions[1].professionalCount = Absent
  /\ analyticsLongSuggestions[2].strategy = "Smart Money Following"
  /\ analyticsLongSuggestions[2].confidence = "medium"
  /\ analyticsLongSuggestions[2].professionalCount = Some(7)

\* the snapshot holds exactly three positions of the wallet, all active,
\* with the PnL 5000, 3000 and -1000
ThreeActivePositionsOf(walletAddress) ==
  LET own == {i \in 1..Len(allPositions) :
                allPositions[i].address = Some(walletAddress)}
  IN /\ Cardinality(own) = 3
     /\ \A i \in own : allPositions[i].status = Some("active")
     /\ \A pnl \in {5000, 3000, -1000} :
           \E i \in own : allPositions[i].pnl = Some(pnl)

\* C22: a wallet with three positions of PnL +5000, +3000 and -1000, all
\* active, has the total PnL 7000, the win rate 2/3 * 100, the active count
\* 3, the closed count 0 and the rating C, in the wallet list and in the
\* wallet details.
ThreePositionWalletSummary ==
  LET wallets == walletData
      stats == walletStats
  IN /\ (currentView = "wallets" /\ ThreeActivePositionsOf("W1")) =>
          /\ \E i \in 1..Len(wallets) : wallets[i].address = "W1"
          /\ \A i \in 1..Len(wallets) :
                wallets[i].address = "W1" =>
                  /\ wallets[i].totalPnL = 7000
                  /\ wallets[i].winRate = NumDiv(R(200), R(3))
                  /\ wallets[i].activePositions = 3
                  /\ wallets[i].closedTrades = 0
                  /\ wallets[i].rating = "C"
     /\ (/\ currentView = "wallet-details"
         /\ selectedWallet = Some("W1")
         /\ ThreeActivePositionsOf("W1")) =>
          /\ stats.totalPnL = 7000
          /\ stats.winRate = NumDiv(R(200), R(3))
          /\ stats.activePositions = 3
          /\ stats.closedPositions = 0
          /\ stats.rating = "C"

\* C22 witness: the details of the wallet are shown for a snapshot that
\* lists its three positions, the loss first, after a position of another
\* wallet
ThreePositionWalletWitness ==
  /\ currentView = "wallet-details"
  /\ selectedWallet = Some("W1")
  /\ ~loading
  /\ ThreeActivePositionsOf("W1")
  /\ Len(allPositions) = 4
  /\ allPositions[1].address = Some("W2")
  /\ allPositions[2].pnl = Some(-1000)
  /\ walletStats.rating = "C"

\* size 1000, entry_price 100, leverage 10, is_long true and pnl 50
IsWorkedPricePosition(position) ==
  /\ position.size = Some(1000)
  /\ position.entry_price = Some(100)
  /\ position.leverage = Some(10)
  /\ position.is_long = Some(TRUE)
  /\ position.pnl = Some(50)

\* C23: a position with size 1000, entry_price 100, leverage 10, is_long
\* true and pnl 50 has the initial value 10000, the return fraction 0.005
\* (a PnL percentage of 0.5) and the current price
\* 100 * (1 + 0.005 / 10) = 100.05 in the wallet details.
WorkedPriceExample ==
  currentView = "wallet-details" =>
    \A i \in 1..Len(rows) :
      IsWorkedPricePosition(rows[i].position) =>
        /\ rows[i].initialValue = R(10000)
        /\ NumDiv(R(rows[i].position.pnl[1]), rows[i].initialValue)
             = NumDiv(R(5), R(1000))
        /\ rows[i].pnlPercentage = NumDiv(R(1), R(2))
        /\ rows[i].currentPrice
             = NumMul(R(100), NumAdd(R(1), NumDiv(NumDiv(R(5), R(1000)),
                                                  R(10))))
        /\ rows[i].currentPrice = NumDiv(R(10005), R(100))

\* C23 witness: the wallet details show the row of that position
WorkedPriceWitness ==
  /\ currentView = "wallet-details"
  /\ ~loading
  /\ \E i \in 1..Len(rows) :
       /\ IsWorkedPricePosition(rows[i].position)
       /\ rows[i].currentPrice # Null

\* C30: in App, after any sequence of navigation callbacks, selectedWallet
\* is non-null exactly when currentView is "wallet-details".
SelectedWalletIffWalletDetails ==
  (selectedWallet # Absent) <=> (currentView = "wallet-details")

\* C30 witness: the details of the second wallet of a loaded list are
\* shown with their snapshot
SelectedWalletWitness ==
  /\ currentView = "wallet-details"
  /\ selectedWallet = Some("W2")
  /\ ~loading
  /\ Len(allPositions) > 0

\* the position is counted by the highRisk filter
IsHighRisk(position) ==
  OrZero(position.leverage) > 25 \/ IAbs(OrZero(position.pnl)) > 50000

\* the position is counted by the mediumRisk filter
IsMediumRisk(position) ==
  \/ OrZero(position.leverage) >= 10 /\ OrZero(position.leverage) <= 25
  \/ IAbs(OrZero(position.pnl)) >= 10000
       /\ IAbs(OrZero(position.pnl)) <= 50000

\* C27: highRisk + mediumRisk + lowRisk equals the number of positions with
\* each count at least 0: no position is counted both as high risk and as
\* medium risk.
RiskCountsPartitionPositions ==
  (currentView = "analytics" /\ Len(allPositions) > 0) =>
    LET risk == analytics.riskMetrics
    IN /\ risk.highRisk + risk.mediumRisk + risk.lowRisk = Len(allPositions)
       /\ risk.highRisk >= 0
       /\ risk.mediumRisk >= 0
       /\ risk.lowRisk >= 0
       /\ \A i \in 1..Len(allPositions) :
             ~(IsHighRisk(allPositions[i]) /\ IsMediumRisk(allPositions[i]))

\* C28: in the second Analytics variant the analysis pass over any
\* non-empty snapshot completes without throwing, also when an asset meets
\* the contrarian-opportunity gate, whose reason text calls formatCurrency.
AnalysisPassVariant2Completes ==
  (currentView = "analytics" /\ Len(allPositions) > 0) =>
    analysisPassVariant2 = "completes"

\* every record of the pages 1..total_pages, in page order
EveryPage(total_items) == [k \in 1..total_items |-> [id |-> k]]

\* C24: whenever fetchAllPositions finishes with error = null, allPositions
\* holds the records of every page 1..total_pages; the failure of any page
\* request, the first or a later one, ends with error set and allPositions
\* empty rather than with a partial snapshot.
FetchAllOrNothing ==
  pc = "idle" =>
    /\ error = Absent =>
         /\ initialData # Absent
         /\ allPositions = EveryPage(initialData[1].pagination.total_items)
    /\ (\/ initialData = Absent
        \/ \E page \in DOMAIN requests : requests[page] = "failed") =>
         /\ error # Absent
         /\ allPositions = <<>>

\* a finished run whose later pages all succeeded holds every record
FetchWithoutFailureHoldsEveryPage ==
  (/\ pc = "idle"
   /\ error = Absent
   /\ \A page \in DOMAIN requests : requests[page] = "ok") =>
    allPositions = EveryPage(initialData[1].pagination.total_items)

\* C25: the pages 2..total_pages are requested together, before any of
\* them settles, and for every order of arrival the assembled sequence is
\* the records of page 1 followed by those of the pages 2, 3, ... in page
\* order.
PagesAssembledInPageOrder ==
  /\ pc = "pages" =>
       /\ DOMAIN requests = 2..initialData[1].pagination.total_pages
       /\ Len(arrivals)
            = Cardinality({page \in DOMAIN requests :
                             requests[page] # "pending"})
  /\ (pc = "idle" /\ error = Absent /\ Len(arrivals) > 0) =>
       /\ \A i, j \in 1..Len(allPositions) :
             i < j => allPositions[i].id < allPositions[j].id
       /\ \A page \in DOMAIN requests :
             requests[page] = "ok" =>
               \A k \in 1..Len(ServerPage(
                                 page,
                                 initialData[1].pagination.total_items)) :
                 \E i \in 1..Len(allPositions) :
                   allPositions[i].id = (page - 1) * PageSize + k
       /\ \A k \in 1..Len(initialData[1].data) :
             allPositions[k] = initialData[1].data[k]

\* C25 witness: page 3 arrived before page 2, and the snapshot holds the
\* three pages in page order
PagesAssembledWitness ==
  /\ pc = "idle"
  /\ error = Absent
  /\ arrivals = <<3, 2>>
  /\ requests[2] = "ok"
  /\ requests[3] = "ok"
  /\ Len(allPositions) = 3 * PageSize
  /\ allPositions[1].id = 1
  /\ allPositions[Len(allPositions)].id = 3 * PageSize

\* C26: every run of fetchAllPositions sets loading = true and error = null
\* at its start and, when every request settles, sets loading = false in
\* the end, with either an error and an empty allPositions or no error; a
\* run started by Retry, which is offered only while error is set, clears
\* the error before a new result is stored.
FetchRunTerminates ==
  /\ [][pc' = "initial" => (loading' /\ error' = Absent)]_vars
  /\ [](pc \in {"initial", "pages"} => (loading /\ error = Absent))
  /\ [](pc = "idle" => (~loading /\ (error # Absent => allPositions = <<>>)))
  /\ [][(error # Absent /\ pc' = "initial") => (pc = "idle" /\ ~loading)]_vars
  /\ [][allPositions' # allPositions => (error = Absent /\ error' = Absent)]_vars
  /\ (loading ~> ~loading)

\* C26 witness: a run has ended with an error, the snapshot is empty and
\* Retry is offered
FetchRunWitness ==
  /\ pc = "idle"
  /\ ~loading
  /\ error = Some("HTTP 500")
  /\ allPositions = <<>>
  /\ ENABLED Retry

\* C29: in each paginated table, after any sequence of sort, filter,
\* items-per-page, tab and page-navigation actions on a loaded snapshot,
\* currentPage stays within 1..max(1, totalPages); every action that changes
\* the sort, a filter, the tab or the page size sets currentPage to 1; a
\* click on the sort header of the same field alternates asc and desc, and
\* a new field starts asc.
CurrentPageStaysInRange ==
  /\ [](/\ currentPage >= 1
        /\ currentPage <= (IF totalPages > 1 THEN totalPages ELSE 1))
  /\ [][(\/ sortConfig' # sortConfig
         \/ filters' # filters
         \/ activeTab' # activeTab
         \/ itemsPerPage' # itemsPerPage) => currentPage' = 1]_vars
  /\ [][sortConfig' # sortConfig =>
         IF sortConfig'.field = sortConfig.field
         THEN /\ sortConfig.order \in {"asc", "desc"}
              /\ sortConfig'.order \in {"asc", "desc"} \ {sortConfig.order}
         ELSE sortConfig'.order = "asc"]_vars

\* C29 witness: the closed tab of the wallet details, sorted by size
\* descending after two clicks, five rows a page, on its second page
CurrentPageWitness ==
  /\ currentView = "wallet-details"
  /\ activeTab = "closed"
  /\ sortConfig = [field |-> Some("size"), order |-> "desc"]
  /\ itemsPerPage = 5
  /\ totalPages = 2
  /\ currentPage = 2

====
